---- MODULE Spec2Model ----
(***************************************************************************)
(* ETL engine: DAG executor (execute_schedule / execute_pipeline), the     *)
(* pipeline executor it drives, and the state manager's tables.            *)
(*                                                                         *)
(* Eight specifications share the variables and the actions:               *)
(*   SpecDag   execute_schedule up to the batch partition, over every DAG  *)
(*             description within the bounds (any listing order, repeated  *)
(*             and unknown depends_on entries);                            *)
(*   Spec      execute_schedule to its end, the node tasks of a batch      *)
(*             interleaved at their plugin awaits;                         *)
(*   SpecLive  the same steps under weak fairness, for termination;        *)
(*   SpecPipe  execute_pipeline over every pipeline within the bounds;     *)
(*   SpecTimed execute_schedule with the wall clock advancing and the node *)
(*             deadlines of asyncio.wait_for;                              *)
(*   SpecSched the cron scheduler: reconciliation with etl_schedules while *)
(*             the table is edited, and the firings of the installed jobs; *)
(*   SpecStore the scheduler's start, stop and poll loop while the table   *)
(*             is edited and the store fails;                              *)
(*   SpecServe the service: lifespan start and stop of the scheduler, the  *)
(*             trigger endpoints and the cron firings, each driving the    *)
(*             executor to the end of its run.                             *)
(***************************************************************************)
EXTENDS Integers, Sequences, FiniteSets, TLC

VARIABLES
    dag,          \* schedule.dag: the sequence of DAGNode of the schedule run
    pipelines,    \* etl_pipelines: pipeline id -> steps
    target,       \* pipeline id handed to execute_pipeline
    executions,   \* etl_executions, in insertion order
    tasks,        \* etl_execution_tasks, in insertion order
    logs,         \* etl_execution_logs, in insertion order
    pc,           \* position of execute_schedule / execute_pipeline
    sorted_nodes, \* execute_schedule: sorted_nodes
    batches,      \* execute_schedule: the list _get_execution_batches returned
    batch_idx,    \* execute_schedule: index of the batch being run
    node_results, \* execute_schedule: node_results
    runs,         \* one coroutine of PipelineExecutor.execute per node / direct run
    clock,        \* the wall clock that datetime.now() reads, in seconds
    etl_schedules, \* the table etl_schedules: schedule id -> row
    active,       \* CronScheduler._active_schedules: schedule id -> Schedule
    jobs,         \* the jobs of CronScheduler.scheduler: job id -> job
    job_ops,      \* the add_job / remove_job calls of the last _sync_schedules
    polled,       \* etl_schedules as the last _sync_schedules left it
    fired,        \* the Schedule the last firing handed to execute_schedule
    polling,      \* CronScheduler.start() has run: the poll loop is alive
    edits,        \* the number of changes made to etl_schedules so far
    params,       \* the params argument of the running execute_* call
    scheduler_enabled, \* settings.scheduler_enabled
    aps_state,    \* CronScheduler.scheduler: never started, running, shut down
    initialized,  \* main.scheduler and main.executor are set (lifespan began)
    caller,       \* the coroutine that awaits the executor's run, if any
    outcome       \* how the last call of the service ended

sched_vars == <<etl_schedules, active, jobs, job_ops, polled, fired, polling, edits>>

serve_vars == <<scheduler_enabled, aps_state, initialized, caller, outcome>>

vars == <<dag, pipelines, target, executions, tasks, logs, pc, sorted_nodes,
          batches, batch_idx, node_results, runs, clock, sched_vars, params,
          serve_vars>>

(***************************************************************************)
(* Bounds                                                                  *)
(***************************************************************************)
MaxDeps == 2      \* longest depends_on list
MaxRows == 1      \* largest row count a plugin returns
MaxSteps == 2     \* most steps of an enumerated pipeline

None == "None"   \* a missing optional string (step.input, step.output)
NoError == <<>>  \* a missing error message; messages are tuples of their parts
Null == -1       \* a missing integer (NULL row count, absent variable)

Range(s) == {s[i] : i \in 1..Len(s)}

SeqsUpTo(S, n) == UNION {[1..k -> S] : k \in 0..n}

(***************************************************************************)
(* Models: DAGNode, PipelineStep                                           *)
(***************************************************************************)
NodeIds == {"n1", "n2", "n3"}

DefaultTimeout == 3600   \* DAGNode.timeout: int = 3600, in seconds

\* A dict that holds nothing
EmptyDict == [k \in {} |-> None]

DAGNode(id, pipeline_id, depends_on) ==
    [id |-> id, pipeline_id |-> pipeline_id, depends_on |-> depends_on,
     params |-> EmptyDict, timeout |-> DefaultTimeout]

Ids(nodes) == {nodes[i].id : i \in 1..Len(nodes)}

NodeOf(nodes, id) == CHOOSE n \in Range(nodes) : n.id = id

(***************************************************************************)
(* DAGExecutor._topological_sort                                           *)
(***************************************************************************)
\* for other in dag: if node.id in other.depends_on: in_degree[other.id] -= 1;
\*                   if in_degree[other.id] == 0: queue.append(other)
RECURSIVE RelaxLoop(_, _, _, _, _)
RelaxLoop(d, j, node, queue, in_degree) ==
    IF j > Len(d) THEN [queue |-> queue, in_degree |-> in_degree]
    ELSE LET other == d[j] IN
         IF node.id \in Range(other.depends_on)
         THEN LET deg == [in_degree EXCEPT ![other.id] = @ - 1] IN
              RelaxLoop(d, j + 1, node,
                        IF deg[other.id] = 0 THEN Append(queue, other) ELSE queue,
                        deg)
         ELSE RelaxLoop(d, j + 1, node, queue, in_degree)

\* while queue: node = queue.pop(0); sorted_nodes.append(node); ...
RECURSIVE KahnLoop(_, _, _, _)
KahnLoop(d, queue, in_degree, sorted) ==
    IF queue = <<>> THEN sorted
    ELSE LET node == Head(queue)
             r == RelaxLoop(d, 1, node, Tail(queue), in_degree)
         IN KahnLoop(d, r.queue, r.in_degree, Append(sorted, node))

CircularDag == <<"Circular dependency detected in DAG">>

\* Variant: the length check after the loop is missing
_topological_sort_unchecked(d) ==
    LET in_degree == [id \in Ids(d) |-> Len(NodeOf(d, id).depends_on)]
        queue == SelectSeq(d, LAMBDA n : in_degree[n.id] = 0)
    IN [ok |-> TRUE, error |-> NoError,
        nodes |-> KahnLoop(d, queue, in_degree, <<>>)]

_topological_sort(d) ==
    LET in_degree == [id \in Ids(d) |-> Len(NodeOf(d, id).depends_on)]
        queue == SelectSeq(d, LAMBDA n : in_degree[n.id] = 0)
        sorted == KahnLoop(d, queue, in_degree, <<>>)
    IN IF Len(sorted) # Len(d)
       THEN [ok |-> FALSE, error |-> CircularDag, nodes |-> <<>>]
       ELSE [ok |-> TRUE, error |-> NoError, nodes |-> sorted]

(***************************************************************************)
(* DAGExecutor._get_execution_batches                                      *)
(***************************************************************************)
NoProgress == <<"Cannot make progress - dependency issue">>

RECURSIVE BatchLoop(_, _, _)
BatchLoop(remaining, executed, acc) ==
    IF remaining = <<>> THEN [ok |-> TRUE, error |-> NoError, batches |-> acc]
    ELSE LET deps_met(n) == \A dep \in Range(n.depends_on) : dep \in executed
             batch == SelectSeq(remaining, deps_met)
         IN IF batch = <<>>
            THEN [ok |-> FALSE, error |-> NoProgress, batches |-> <<>>]
            ELSE BatchLoop(SelectSeq(remaining, LAMBDA n : ~deps_met(n)),
                           executed \cup Ids(batch),
                           Append(acc, batch))

\* Variant: one node per batch, in sorted order
_get_execution_batches_serial(sorted) ==
    [ok |-> TRUE, error |-> NoError,
     batches |-> [i \in 1..Len(sorted) |-> <<sorted[i]>>]]

_get_execution_batches(sorted) == BatchLoop(sorted, {}, <<>>)

(***************************************************************************)
(* Models: PipelineStep, StepType, ExecutionStatus                         *)
(***************************************************************************)
EXTRACT == "extract"
TRANSFORM == "transform"
LOAD == "load"

PENDING == "pending"
RUNNING == "running"
SUCCESS == "success"
FAILED == "failed"

StepIds == <<"a", "b", "c">>
StepName == [a |-> "A", b |-> "B", c |-> "C"]
VarNames == {"x", "y"}

PipelineStep(id, type, plugin, input, output) ==
    [id |-> id, name |-> StepName[id], type |-> type, plugin |-> plugin,
     input |-> input, output |-> output, parallel |-> FALSE]

(***************************************************************************)
(* PluginRegistry: the names registered at import time                     *)
(***************************************************************************)
_extract_plugins ==
    {"source-csv", "source-tushare", "source-clickhouse", "source-postgres"}
_transform_plugins ==
    {"transform-dedupe", "transform-aggregate", "transform-filter",
     "transform-join", "transform-map"}
_load_plugins == {"target-clickhouse", "target-csv", "target-postgres"}

\* get_extract / get_transform / get_load: the error raised, NoError when the
\* plugin is constructed
registry_get(type, name) ==
    CASE type = EXTRACT ->
           IF name \notin _extract_plugins
           THEN <<"Unknown extract plugin", name>> ELSE NoError
      [] type = TRANSFORM ->
           IF name \notin _transform_plugins
           THEN <<"Unknown transform plugin", name>> ELSE NoError
      [] type = LOAD ->
           IF name \notin _load_plugins
           THEN <<"Unknown load plugin", name>> ELSE NoError

(***************************************************************************)
(* PluginContext.variables: a dict, kept as its items in insertion order;  *)
(* a frame is kept as its row count                                        *)
(***************************************************************************)
Keys(env) == {env[i].key : i \in 1..Len(env)}

get_variable(env, key) ==
    IF key \in Keys(env)
    THEN (CHOOSE e \in Range(env) : e.key = key).frame
    ELSE Null

\* Variant: the dict is replaced by one that holds the new key alone
set_variable_alone(env, key, frame) == <<[key |-> key, frame |-> frame]>>

\* self.variables[key] = value
set_variable(env, key, frame) ==
    IF key \in Keys(env)
    THEN [i \in 1..Len(env) |->
            IF env[i].key = key THEN [key |-> key, frame |-> frame] ELSE env[i]]
    ELSE Append(env, [key |-> key, frame |-> frame])

(***************************************************************************)
(* PipelineExecutor._get_input_df                                          *)
(***************************************************************************)
\* Variant: a step without a declared input is given no frame
_get_input_df_declared_only(env, step) ==
    IF step.input # None /\ get_variable(env, step.input) # Null
    THEN [ok |-> TRUE, error |-> NoError,
          frame |-> get_variable(env, step.input)]
    ELSE [ok |-> FALSE, error |-> <<"Input not found", step.input>>,
          frame |-> Null]

_get_input_df(env, step) ==
    IF step.input # None
    THEN IF get_variable(env, step.input) = Null
         THEN [ok |-> FALSE, error |-> <<"Input not found", step.input>>,
               frame |-> Null]
         ELSE [ok |-> TRUE, error |-> NoError,
               frame |-> get_variable(env, step.input)]
    ELSE IF env # <<>>
         THEN [ok |-> TRUE, error |-> NoError, frame |-> env[1].frame]
         ELSE [ok |-> FALSE,
               error |-> <<"No input DataFrame found for step", step.id>>,
               frame |-> Null]

(***************************************************************************)
(* PipelineExecutor._topological_sort                                      *)
(***************************************************************************)
StepsIds(steps) == {steps[i].id : i \in 1..Len(steps)}

StepOf(steps, id) == CHOOSE s \in Range(steps) : s.id = id

\* deps = set(); if step.input and step.input in step_map: deps.add(step.input)
\* for s in steps: if s.output == step.input: deps.add(s.id)
dependencies(steps, step) ==
    (IF step.input # None /\ step.input \in StepsIds(steps)
     THEN {step.input} ELSE {})
    \cup {s.id : s \in {t \in Range(steps) : t.output = step.input}}

\* visit(node_id), on the state st = (sorted_ids, visited, temp_visited, error).
\* `for dep in dependencies[node_id]` iterates a set of strings, whose order
\* the interpreter's string hashing decides: every order is an outcome.
RECURSIVE visit(_, _, _)
RECURSIVE VisitDeps(_, _, _)
visit(steps, node_id, st) ==
    IF st.error # NoError THEN {st}
    ELSE IF node_id \in st.temp_visited
    THEN {[st EXCEPT !.error = <<"Circular dependency detected at", node_id>>]}
    ELSE IF node_id \in st.visited THEN {st}
    ELSE LET st1 == [st EXCEPT !.temp_visited = @ \cup {node_id}]
             after == VisitDeps(steps,
                                dependencies(steps, StepOf(steps, node_id)), st1)
         IN {IF st2.error # NoError THEN st2
             ELSE [st2 EXCEPT !.temp_visited = @ \ {node_id},
                              !.visited = @ \cup {node_id},
                              !.sorted_ids = Append(@, node_id)] : st2 \in after}

VisitDeps(steps, deps, st) ==
    IF st.error # NoError \/ deps = {} THEN {st}
    ELSE UNION {UNION {VisitDeps(steps, deps \ {dep}, st2) :
                       st2 \in visit(steps, dep, st)} : dep \in deps}

\* for step_id in step_map: if step_id not in visited: visit(step_id)
RECURSIVE VisitAll(_, _, _)
VisitAll(steps, k, sts) ==
    IF k > Len(steps) THEN sts
    ELSE VisitAll(steps, k + 1,
                  UNION {IF steps[k].id \in st.visited THEN {st}
                         ELSE visit(steps, steps[k].id, st) : st \in sts})

\* Variant: no cycle detection, the steps are run as listed
_topological_sort_steps_unchecked(steps) ==
    {[ok |-> TRUE, error |-> NoError, steps |-> steps]}

\* The outcomes of _topological_sort: the sorted steps, or the error raised.
_topological_sort_steps(steps) ==
    LET st0 == [sorted_ids |-> <<>>, visited |-> {}, temp_visited |-> {},
                error |-> NoError]
    IN {IF st.error # NoError
        THEN [ok |-> FALSE, error |-> st.error, steps |-> <<>>]
        ELSE [ok |-> TRUE, error |-> NoError,
              steps |-> [k \in 1..Len(st.sorted_ids) |->
                            StepOf(steps, st.sorted_ids[k])]] :
        st \in VisitAll(steps, 1, {st0})}

(***************************************************************************)
(* StateManager                                                            *)
(***************************************************************************)
\* datetime.now(): the wall clock, read in whole seconds
now == clock

MsPerSecond == 1000   \* int((now - started_at).total_seconds() * 1000)

create_execution(ex, kind, trigger) ==
    Append(ex, [kind |-> kind, trigger |-> trigger, status |-> PENDING,
                started |-> FALSE, finished |-> FALSE, error |-> NoError,
                started_at |-> Null, finished_at |-> Null, duration |-> Null])

start_execution(ex, execution_id) ==
    [ex EXCEPT ![execution_id].status = RUNNING, ![execution_id].started = TRUE,
               ![execution_id].started_at = now]

\* Variant: the operands of the subtraction are swapped
complete_execution_swapped(ex, execution_id, status, error) ==
    LET started_at == ex[execution_id].started_at IN
    [ex EXCEPT ![execution_id].status = status, ![execution_id].finished = TRUE,
               ![execution_id].error = error,
               ![execution_id].finished_at = now,
               ![execution_id].duration =
                   IF started_at # Null THEN (started_at - now) * MsPerSecond
                   ELSE 0]

\* started_at is read back from the row; duration = ... if started_at else 0
complete_execution(ex, execution_id, status, error) ==
    LET started_at == ex[execution_id].started_at IN
    [ex EXCEPT ![execution_id].status = status, ![execution_id].finished = TRUE,
               ![execution_id].error = error,
               ![execution_id].finished_at = now,
               ![execution_id].duration =
                   IF started_at # Null THEN (now - started_at) * MsPerSecond
                   ELSE 0]

create_task(ts, execution_id, node_id, node_name) ==
    Append(ts, [execution_id |-> execution_id, node_id |-> node_id,
                node_name |-> node_name, status |-> PENDING,
                started |-> FALSE, finished |-> FALSE,
                input_rows |-> Null, output_rows |-> Null, error |-> NoError,
                started_at |-> Null, finished_at |-> Null])

\* Variant: only the timestamp is written
start_task_keeps_status(ts, task_id) ==
    [ts EXCEPT ![task_id].started = TRUE, ![task_id].started_at = now]

start_task(ts, task_id) ==
    [ts EXCEPT ![task_id].status = RUNNING, ![task_id].started = TRUE,
               ![task_id].started_at = now]

complete_task(ts, task_id, status, input_rows, output_rows, error) ==
    [ts EXCEPT ![task_id].status = status, ![task_id].finished = TRUE,
               ![task_id].finished_at = now,
               ![task_id].input_rows = input_rows,
               ![task_id].output_rows = output_rows,
               ![task_id].error = error]

add_log(ls, execution_id, task_id, level, message) ==
    Append(ls, [execution_id |-> execution_id, task_id |-> task_id,
                level |-> level, message |-> message])

(***************************************************************************)
(* PipelineExecutor.execute, as one coroutine `run`:                       *)
(*   pc       none | ready | await | done                                  *)
(*   steps, i the sorted steps and the index of the current one            *)
(*   env      ctx.variables                                                *)
(*   task_id, input_rows   locals of the current step                      *)
(*   result   true | false | raised, once done; why and error say how      *)
(*   deadline when the timer of asyncio.wait_for is due                    *)
(*   created  the ids of the tasks this coroutine created (bookkeeping)    *)
(*   plugin_calls  how many plugins it constructed and called (bookkeeping)*)
(***************************************************************************)
NoRun ==
    [pc |-> "none", steps |-> <<>>, i |-> 0, env |-> <<>>, task_id |-> 0,
     input_rows |-> 0, result |-> "none", why |-> "none", error |-> NoError,
     deadline |-> Null, created |-> <<>>, plugin_calls |-> 0,
     params |-> EmptyDict]

Finished(run, result, why, error) ==
    [run EXCEPT !.pc = "done", !.result = result, !.why = why, !.error = error]

\* Variant: the handler goes on with the next step instead of returning
StepFailed_continues(ts, ls, run, execution_id, error_msg) ==
    LET step == run.steps[run.i]
        ts1 == complete_task(ts, run.task_id, FAILED, Null, Null, error_msg)
        ls1 == add_log(ls, execution_id, run.task_id, "ERROR",
                       <<"Step", step.name, "failed", error_msg>>)
    IN IF run.i < Len(run.steps)
       THEN [tasks |-> start_task(create_task(ts1, execution_id,
                                              run.steps[run.i + 1].id,
                                              run.steps[run.i + 1].name),
                                  Len(ts1) + 1),
             logs |-> ls1,
             run |-> [Finished(run, "false", "step_failed", error_msg)
                        EXCEPT !.created = Append(@, Len(ts1) + 1)]]
       ELSE [tasks |-> ts1, logs |-> ls1,
             run |-> Finished(run, "false", "step_failed", error_msg)]

\* except Exception as e: complete_task(FAILED, error), add_log(ERROR), return False
StepFailed(ts, ls, run, execution_id, error_msg) ==
    LET step == run.steps[run.i] IN
    [tasks |-> complete_task(ts, run.task_id, FAILED, Null, Null, error_msg),
     logs |-> add_log(ls, execution_id, run.task_id, "ERROR",
                      <<"Step", step.name, "failed", error_msg>>),
     run |-> Finished(run, "false", "step_failed", error_msg)]

\* Variant: input_rows is left at its initial 0
Prepare_input_rows_unset(env, step) ==
    IF step.type = EXTRACT
    THEN [error |-> registry_get(EXTRACT, step.plugin), input_rows |-> 0]
    ELSE LET inp == _get_input_df(env, step) IN
         IF ~inp.ok THEN [error |-> inp.error, input_rows |-> 0]
         ELSE [error |-> registry_get(step.type, step.plugin), input_rows |-> 0]

\* What a step does before it awaits its plugin: resolve the input, construct
\* the plugin.
Prepare(env, step) ==
    IF step.type = EXTRACT
    THEN [error |-> registry_get(EXTRACT, step.plugin), input_rows |-> 0]
    ELSE LET inp == _get_input_df(env, step) IN
         IF ~inp.ok THEN [error |-> inp.error, input_rows |-> 0]
         ELSE [error |-> registry_get(step.type, step.plugin),
               input_rows |-> inp.frame]

\* Variant: the task of a following step flagged parallel is created and
\* started together with the task of the step
BeginStep_parallel_pair(ts, ls, run, execution_id) ==
    LET step == run.steps[run.i]
        task_id == Len(ts) + 1
        ts1 == start_task(create_task(ts, execution_id, step.id, step.name),
                          task_id)
        pair == run.i < Len(run.steps) /\ run.steps[run.i + 1].parallel
        ts2 == IF pair
               THEN start_task(create_task(ts1, execution_id,
                                           run.steps[run.i + 1].id,
                                           run.steps[run.i + 1].name),
                               task_id + 1)
               ELSE ts1
        run1 == [run EXCEPT !.task_id = task_id,
                            !.created = IF pair
                                        THEN Append(Append(@, task_id), task_id + 1)
                                        ELSE Append(@, task_id)]
        prep == Prepare(run.env, step)
    IN IF prep.error # NoError
       THEN StepFailed(ts2, ls, run1, execution_id, prep.error)
       ELSE [tasks |-> ts2, logs |-> ls,
             run |-> [run1 EXCEPT !.pc = "await",
                                  !.input_rows = prep.input_rows,
                                  !.plugin_calls = @ + 1]]

\* The loop body up to the plugin call: create_task, start_task, Prepare.
BeginStep(ts, ls, run, execution_id) ==
    LET step == run.steps[run.i]
        task_id == Len(ts) + 1
        ts1 == start_task(create_task(ts, execution_id, step.id, step.name),
                          task_id)
        run1 == [run EXCEPT !.task_id = task_id, !.created = Append(@, task_id)]
        prep == Prepare(run.env, step)
    IN IF prep.error # NoError
       THEN StepFailed(ts1, ls, run1, execution_id, prep.error)
       ELSE [tasks |-> ts1, logs |-> ls,
             run |-> [run1 EXCEPT !.pc = "await",
                                  !.input_rows = prep.input_rows,
                                  !.plugin_calls = @ + 1]]

\* for step in steps: ... return True
NextStep(ts, ls, run, execution_id) ==
    IF run.i > Len(run.steps)
    THEN [tasks |-> ts, logs |-> ls, run |-> Finished(run, "true", "ok", NoError)]
    ELSE BeginStep(ts, ls, run, execution_id)

\* Variant: the frame is bound under the step's id, whatever its output
StepSucceeded_bound_by_id(ts, ls, run, execution_id, rows) ==
    LET step == run.steps[run.i]
        env1 == IF step.type = LOAD THEN run.env
                ELSE set_variable(run.env, step.id, rows)
    IN NextStep(complete_task(ts, run.task_id, SUCCESS, run.input_rows, rows,
                              NoError),
                ls,
                [run EXCEPT !.env = env1, !.i = @ + 1],
                execution_id)

\* The plugin returned `rows` (the frame, or the rows written by a load):
\* bind the variable, complete_task(SUCCESS), go on with the next step.
StepSucceeded(ts, ls, run, execution_id, rows) ==
    LET step == run.steps[run.i]
        env1 == IF step.type = LOAD THEN run.env
                ELSE set_variable(run.env,
                                  IF step.output # None THEN step.output
                                  ELSE step.id,
                                  rows)
    IN NextStep(complete_task(ts, run.task_id, SUCCESS, run.input_rows, rows,
                              NoError),
                ls,
                [run EXCEPT !.env = env1, !.i = @ + 1],
                execution_id)

\* execute(): steps = self._topological_sort(pipeline.steps), with outcome o
Execute(ts, ls, run, execution_id, o) ==
    IF ~o.ok
    THEN [tasks |-> ts, logs |-> ls,
          run |-> Finished(run, "raised", "exception", o.error)]
    ELSE NextStep(ts, ls, [run EXCEPT !.steps = o.steps, !.i = 1, !.env = <<>>],
                  execution_id)

(***************************************************************************)
(* The metadata store's pipelines and the schedules handed to the executor *)
(***************************************************************************)
\* Scenario "linear pipeline": a(extract, output=x), b(transform, input=x,
\* output=y), c(load, input=y)
LinearPipeline ==
    <<PipelineStep("a", EXTRACT, "source-csv", None, "x"),
      PipelineStep("b", TRANSFORM, "transform-filter", "x", "y"),
      PipelineStep("c", LOAD, "target-csv", "y", None)>>

\* An extract and a load that both declare their output
TwoStepPipeline ==
    <<PipelineStep("a", EXTRACT, "source-csv", None, "x"),
      PipelineStep("b", LOAD, "target-csv", "x", "y")>>

PipelineStore ==
    [id \in {"p_ok", "p_lin"} |->
        IF id = "p_ok" THEN TwoStepPipeline ELSE LinearPipeline]

Absent == "p0"   \* a pipeline id the store does not hold

\* _load_pipeline: the steps of the pipeline, or Absent's <<"none">> marker
_load_pipeline(store, pipeline_id) ==
    IF pipeline_id \in DOMAIN store
    THEN [found |-> TRUE, steps |-> store[pipeline_id]]
    ELSE [found |-> FALSE, steps |-> <<>>]

NodeOrder == <<"n1", "n2", "n3">>

DepLists(names) == SeqsUpTo(names, MaxDeps)

\* A schedule: the nodes `ids` in this order with the pipelines p and the
\* depends_on lists deps
Schedule(ids, p, deps) ==
    [i \in 1..Len(ids) |-> DAGNode(ids[i], p[i], deps[i])]

\* The sequences of distinct node ids
Listings == {l \in SeqsUpTo(NodeIds, Len(NodeOrder)) :
               \A i, j \in 1..Len(l) : i # j => l[i] # l[j]}

Direct == "direct"   \* the coroutine execute_pipeline awaits

RunIds == NodeIds \cup {Direct}

\* A mapping from schedule ids that holds nothing
NoSchedules == [id \in {} |-> None]

InitCommon ==
    /\ executions = <<>>
    /\ tasks = <<>>
    /\ logs = <<>>
    /\ pc = "idle"
    /\ sorted_nodes = <<>>
    /\ batches = <<>>
    /\ batch_idx = 0
    /\ node_results = [n \in {} |-> FALSE]
    /\ runs = [r \in RunIds |-> NoRun]
    /\ clock = 0
    /\ active = NoSchedules
    /\ jobs = NoSchedules
    /\ job_ops = {}
    /\ polled = NoSchedules
    /\ fired = <<>>
    /\ polling = FALSE
    /\ edits = 0
    /\ params = <<>>
    /\ aps_state = "new"
    /\ initialized = FALSE
    /\ caller = <<>>
    /\ outcome = <<>>

\* The ids of a set, listed in ascending order
Listed(S) == SelectSeq(NodeOrder, LAMBDA id : id \in S)

\* Schedules run to the end: nodes n1..nk in this order, depends_on any set
\* of the three node ids (so that a schedule of fewer nodes may name a node
\* it does not have), any pipeline of the store or the absent one
Init ==
    /\ \E k \in 0..Len(NodeOrder) :
         \E p \in [1..k -> DOMAIN PipelineStore \cup {Absent}],
            deps \in [1..k -> SUBSET NodeIds] :
              dag = Schedule(SubSeq(NodeOrder, 1, k), p,
                             [i \in 1..k |-> Listed(deps[i])])
    /\ pipelines = PipelineStore
    /\ target = None
    /\ etl_schedules = NoSchedules
    /\ scheduler_enabled = TRUE
    /\ InitCommon

MaxLiveNodes == 2   \* most nodes of a schedule run under fairness

\* Schedules run to the end under fairness: nodes n1..nk in this order, all
\* of one stored pipeline, depends_on any set of the three node ids
InitLive ==
    /\ \E k \in 0..MaxLiveNodes :
         \E deps \in [1..k -> SUBSET NodeIds] :
              dag = Schedule(SubSeq(NodeOrder, 1, k), [i \in 1..k |-> "p_ok"],
                             [i \in 1..k |-> Listed(deps[i])])
    /\ pipelines = PipelineStore
    /\ target = None
    /\ etl_schedules = NoSchedules
    /\ scheduler_enabled = TRUE
    /\ InitCommon

\* DAG descriptions for the sort: any listing order of any of the node ids,
\* depends_on any list of at most MaxDeps of the three ids, which may repeat
\* an entry or name a node the schedule does not have
InitDag ==
    /\ \E l \in Listings :
         \E deps \in [1..Len(l) -> DepLists(NodeIds)] :
              dag = Schedule(l, [i \in 1..Len(l) |-> "p_ok"], deps)
    /\ pipelines = PipelineStore
    /\ target = None
    /\ etl_schedules = NoSchedules
    /\ scheduler_enabled = TRUE
    /\ InitCommon

(***************************************************************************)
(* DAGExecutor.execute_schedule                                            *)
(***************************************************************************)
\* execution_id = self.state_manager.create_execution(schedule_id=...)
CreateExecution ==
    /\ pc = "idle"
    /\ executions' = create_execution(executions, "schedule", "scheduled")
    /\ pc' = "created"
    /\ UNCHANGED <<clock, sched_vars, params, serve_vars, dag, pipelines, target, tasks, logs, sorted_nodes, batches,
                   batch_idx, node_results, runs>>

\* self.state_manager.start_execution(execution_id)
StartExecution ==
    /\ pc = "created"
    /\ executions' = start_execution(executions, Len(executions))
    /\ pc' = "started"
    /\ UNCHANGED <<clock, sched_vars, params, serve_vars, dag, pipelines, target, tasks, logs, sorted_nodes, batches,
                   batch_idx, node_results, runs>>

\* except Exception as e: complete_execution(FAILED, str(e)); raise
Raise(error) ==
    /\ executions' = complete_execution(executions, Len(executions), FAILED, error)
    /\ pc' = "raised"

\* sorted_nodes = self._topological_sort(schedule.dag)
TopologicalSort ==
    /\ pc = "started"
    /\ LET r == _topological_sort(dag) IN
       IF r.ok
       THEN /\ sorted_nodes' = r.nodes
            /\ pc' = "sorted"
            /\ UNCHANGED executions
       ELSE /\ Raise(r.error)
            /\ UNCHANGED sorted_nodes
    /\ UNCHANGED <<clock, sched_vars, params, serve_vars, dag, pipelines, target, tasks, logs, batches, batch_idx,
                   node_results, runs>>

\* for batch in self._get_execution_batches(sorted_nodes):
GetExecutionBatches ==
    /\ pc = "sorted"
    /\ LET r == _get_execution_batches(sorted_nodes) IN
       IF r.ok
       THEN /\ batches' = r.batches
            /\ batch_idx' = 1
            /\ pc' = "batch"
            /\ UNCHANGED executions
       ELSE /\ Raise(r.error)
            /\ UNCHANGED <<batches, batch_idx>>
    /\ UNCHANGED <<clock, sched_vars, params, serve_vars, dag, pipelines, target, tasks, logs, sorted_nodes,
                   node_results, runs>>

\* node_results.get(dep, False)
Get(results, dep) == IF dep \in DOMAIN results THEN results[dep] ELSE FALSE

Put(results, id, value) ==
    [n \in DOMAIN results \cup {id} |-> IF n = id THEN value ELSE results[n]]

\* Variant: a dependency counts once it has a result, whatever the result
DepsOk_finished(node, results) ==
    \A dep \in Range(node.depends_on) : dep \in DOMAIN results

\* Variant: every result recorded so far must be true
DepsOk_all_so_far(node, results) == \A n \in DOMAIN results : results[n]

\* deps_ok = all(node_results.get(dep, False) for dep in node.depends_on)
DepsOk(node, results) == \A dep \in Range(node.depends_on) : Get(results, dep)

\* for node in batch: skip the node (result False) or create its task
RECURSIVE DispatchLoop(_, _, _, _)
DispatchLoop(batch, j, results, rs) ==
    IF j > Len(batch) THEN [node_results |-> results, runs |-> rs]
    ELSE LET node == batch[j] IN
         IF ~DepsOk(node, results)
         THEN DispatchLoop(batch, j + 1, Put(results, node.id, FALSE), rs)
         ELSE DispatchLoop(batch, j + 1, results,
                           [rs EXCEPT ![node.id].pc = "ready"])

DispatchBatch ==
    /\ pc = "batch"
    /\ batch_idx <= Len(batches)
    /\ LET r == DispatchLoop(batches[batch_idx], 1, node_results, runs) IN
       /\ node_results' = r.node_results
       /\ runs' = r.runs
    /\ pc' = "gather"
    /\ UNCHANGED <<clock, sched_vars, params, serve_vars, dag, pipelines, target, executions, tasks, logs, sorted_nodes,
                   batches, batch_idx>>

\* Variant: a task is awaited for every node of the batch, skipped or not
Started_with_skipped(batch, rs) == batch

\* The nodes of the batch for which a task was created, in task order
Started(batch, rs) == SelectSeq(batch, LAMBDA n : rs[n.id].pc # "none")

\* node_results[node_id] = False if isinstance(result, BaseException)
\*                         else bool(result)
NodeResult(run) == run.result = "true"

RECURSIVE CollectLoop(_, _, _, _)
CollectLoop(started, j, results, rs) ==
    IF j > Len(started) THEN results
    ELSE CollectLoop(started, j + 1,
                     Put(results, started[j].id, NodeResult(rs[started[j].id])),
                     rs)

\* Variant: the gather is not awaited, the task objects are taken for results
Gather_not_awaited ==
    /\ pc = "gather"
    /\ node_results' =
          [n \in DOMAIN node_results \cup Ids(Started(batches[batch_idx], runs)) |->
              IF n \in DOMAIN node_results THEN node_results[n] ELSE TRUE]
    /\ batch_idx' = batch_idx + 1
    /\ pc' = "batch"
    /\ UNCHANGED <<clock, sched_vars, params, serve_vars, dag, pipelines, target, executions, tasks, logs, sorted_nodes,
                   batches, runs>>

\* results = await asyncio.gather(*tasks, return_exceptions=True), and the
\* loop that records them
Gather ==
    /\ pc = "gather"
    /\ LET started == Started(batches[batch_idx], runs) IN
       /\ \A n \in Range(started) : runs[n.id].pc = "done"
       /\ node_results' = CollectLoop(started, 1, node_results, runs)
    /\ batch_idx' = batch_idx + 1
    /\ pc' = "batch"
    /\ UNCHANGED <<clock, sched_vars, params, serve_vars, dag, pipelines, target, executions, tasks, logs, sorted_nodes,
                   batches, runs>>

\* Variant: success needs at least one node result
FinalStatus_nonempty(results) ==
    IF DOMAIN results # {} /\ \A n \in DOMAIN results : results[n]
    THEN SUCCESS ELSE FAILED

\* Variant: any() for all()
FinalStatus_any(results) ==
    IF \E n \in DOMAIN results : results[n] THEN SUCCESS ELSE FAILED

\* all_success = all(node_results.values())
FinalStatus(results) ==
    IF \A n \in DOMAIN results : results[n] THEN SUCCESS ELSE FAILED

\* self.state_manager.complete_execution(execution_id, final_status)
CompleteExecution ==
    /\ pc = "batch"
    /\ batch_idx > Len(batches)
    /\ executions' = complete_execution(executions, Len(executions),
                                        FinalStatus(node_results), NoError)
    /\ pc' = "done"
    /\ UNCHANGED <<clock, sched_vars, params, serve_vars, dag, pipelines, target, tasks, logs, sorted_nodes, batches,
                   batch_idx, node_results, runs>>

(***************************************************************************)
(* DAGExecutor._execute_node, one asyncio task per node                    *)
(***************************************************************************)
Apply(r, w) ==
    /\ tasks' = w.tasks
    /\ logs' = w.logs
    /\ runs' = [runs EXCEPT ![r] = w.run]

\* params or {}: the params argument is None (<<>>) or a dict (<<d>>)
OrEmpty(p) == IF p = <<>> THEN EmptyDict ELSE p[1]

\* Variant: the caller's value is kept on a key both have
merged_params_caller_wins(caller_params, node_params) ==
    LET c == OrEmpty(caller_params) IN
    [k \in DOMAIN c \cup DOMAIN node_params |->
        IF k \in DOMAIN c THEN c[k] ELSE node_params[k]]

\* merged_params = {**(params or {}), **(node.params or {})}
merged_params(caller_params, node_params) ==
    LET c == OrEmpty(caller_params) IN
    [k \in DOMAIN c \cup DOMAIN node_params |->
        IF k \in DOMAIN node_params THEN node_params[k] ELSE c[k]]

\* The task starts: _load_pipeline, then asyncio.wait_for arms its timer and
\* execute() runs up to its first await. With a timeout <= 0 wait_for cancels
\* the coroutine before it has run at all.
ExecuteNode(n) ==
    /\ pc = "gather"
    /\ runs[n].pc = "ready"
    /\ LET node == NodeOf(dag, n)
           p == _load_pipeline(pipelines, node.pipeline_id)
           run == [runs[n] EXCEPT !.deadline = now + node.timeout,
                                  !.params = merged_params(params, node.params)]
       IN IF ~p.found
          THEN Apply(n, [tasks |-> tasks, logs |-> logs,
                         run |-> Finished(runs[n], "false", "pipeline_not_found",
                                          NoError)])
          ELSE IF node.timeout <= 0
          THEN Apply(n, [tasks |-> tasks, logs |-> logs,
                         run |-> Finished(run, "false", "timeout", NoError)])
          ELSE \E o \in _topological_sort_steps(p.steps) :
                  Apply(n, Execute(tasks, logs, run, Len(executions), o))
    /\ UNCHANGED <<clock, sched_vars, params, serve_vars, dag, pipelines, target, executions, pc, sorted_nodes, batches,
                   batch_idx, node_results>>

\* The awaited plugin returns a frame of `rows` rows (a load: rows written)
PluginReturns(r, rows) ==
    /\ runs[r].pc = "await"
    /\ Apply(r, StepSucceeded(tasks, logs, runs[r], Len(executions), rows))
    /\ UNCHANGED <<clock, sched_vars, params, serve_vars, dag, pipelines, target, executions, pc, sorted_nodes, batches,
                   batch_idx, node_results>>

PluginError == <<"plugin raised">>

\* The awaited plugin raises an exception
PluginRaises(r) ==
    /\ runs[r].pc = "await"
    /\ Apply(r, StepFailed(tasks, logs, runs[r], Len(executions), PluginError))
    /\ UNCHANGED <<clock, sched_vars, params, serve_vars, dag, pipelines, target, executions, pc, sorted_nodes, batches,
                   batch_idx, node_results>>

\* asyncio.wait_for(..., timeout=node.timeout) expires while the plugin is
\* awaited: the coroutine is cancelled where it stands (CancelledError is no
\* Exception, the step's handler does not run) and _execute_node returns False
NodeTimeout(n) ==
    /\ runs[n].pc = "await"
    /\ runs' = [runs EXCEPT ![n] = Finished(@, "false", "timeout", NoError)]
    /\ UNCHANGED <<clock, sched_vars, params, serve_vars, dag, pipelines, target, executions, tasks, logs, pc,
                   sorted_nodes, batches, batch_idx, node_results>>

\* The row counts a plugin returns
Rows == 0..MaxRows

\* The row counts the plugins of a schedule's nodes return: the empty frame
\* and the largest one (the DAG executor never reads a row count)
NodeRows == {0, MaxRows}

Next ==
    \/ CreateExecution
    \/ StartExecution
    \/ TopologicalSort
    \/ GetExecutionBatches
    \/ DispatchBatch
    \/ Gather
    \/ CompleteExecution
    \/ \E n \in NodeIds : ExecuteNode(n)
    \/ \E n \in NodeIds, rows \in NodeRows : PluginReturns(n, rows)
    \/ \E n \in NodeIds : PluginRaises(n)
    \/ \E n \in NodeIds : NodeTimeout(n)

Spec == Init /\ [][Next]_vars

\* The event loop runs every coroutine that can go on, and every awaited
\* plugin call ends: it returns, it raises, or its node's timeout cuts it off
SpecLive == InitLive /\ [][Next]_vars /\ WF_vars(Next)

NextDag ==
    \/ CreateExecution
    \/ StartExecution
    \/ TopologicalSort
    \/ GetExecutionBatches

SpecDag == InitDag /\ [][NextDag]_vars

(***************************************************************************)
(* execute_schedule under the wall clock                                   *)
(***************************************************************************)
MaxClock == 2     \* the clock stops advancing at this many seconds

\* The timeouts of the nodes: none at all, one second, the default
Timeouts == {0, 1, DefaultTimeout}

\* Schedules of at most two nodes, the second depending on the first or not,
\* each with any of the timeouts and a pipeline of the store or the absent one
InitTimed ==
    /\ \E k \in 0..2 :
         \E p \in [1..k -> {"p_ok", Absent}],
            deps \in [1..k -> SUBSET {"n1"}],
            t \in [1..k -> Timeouts] :
              dag = [i \in 1..k |->
                       [DAGNode(NodeOrder[i], p[i], Listed(deps[i]))
                          EXCEPT !.timeout = t[i]]]
    /\ pipelines = PipelineStore
    /\ target = None
    /\ etl_schedules = NoSchedules
    /\ scheduler_enabled = TRUE
    /\ InitCommon

\* A second passes while execute_schedule is under way
Tick ==
    /\ pc \notin {"idle", "done", "raised"}
    /\ clock < MaxClock
    /\ clock' = clock + 1
    /\ UNCHANGED <<sched_vars, params, serve_vars, dag, pipelines, target, executions, tasks, logs,
                   pc, sorted_nodes, batches, batch_idx, node_results, runs>>

\* The timer of asyncio.wait_for is due and the event loop runs it: the
\* coroutine is suspended in its plugin's await and is cancelled there. A
\* plugin that awaits nothing (none of the registered plugins does: they read
\* and write with blocking calls) never lets the loop run the timer, and
\* PluginReturns or PluginRaises is what happens next, however late.
NodeDeadline(n) ==
    /\ clock >= runs[n].deadline
    /\ NodeTimeout(n)

NextTimed ==
    \/ CreateExecution
    \/ StartExecution
    \/ TopologicalSort
    \/ GetExecutionBatches
    \/ DispatchBatch
    \/ Gather
    \/ CompleteExecution
    \/ \E n \in NodeIds : ExecuteNode(n)
    \/ \E n \in NodeIds, rows \in NodeRows : PluginReturns(n, rows)
    \/ \E n \in NodeIds : PluginRaises(n)
    \/ \E n \in NodeIds : NodeDeadline(n)
    \/ Tick

SpecTimed == InitTimed /\ [][NextTimed]_vars

(***************************************************************************)
(* DAGExecutor.execute_pipeline                                            *)
(***************************************************************************)
\* The plugin a step names: one registered for each step type, and one that
\* is registered for another type only
StepKinds ==
    {<<EXTRACT, "source-csv">>, <<TRANSFORM, "transform-filter">>,
     <<LOAD, "target-csv">>, <<TRANSFORM, "source-csv">>}

\* The pipeline with the steps StepIds[1..k] in this order
PipelineOf(k, kinds, inputs, outputs) ==
    [i \in 1..k |-> PipelineStep(StepIds[i], kinds[i][1], kinds[i][2],
                                 inputs[i], outputs[i])]

\* The steps with their parallel flags set
WithParallel(steps, flags) ==
    [i \in DOMAIN steps |-> [steps[i] EXCEPT !.parallel = flags[i]]]

\* Pipelines of at most MaxSteps steps: any kind, any input (none, a step id,
\* a variable name), any output (none, a variable name), any parallel flag;
\* and the linear pipeline scenario
InitPipe ==
    /\ \/ \E k \in 0..MaxSteps :
            \E kinds \in [1..k -> StepKinds],
               inputs \in [1..k -> {None} \cup Range(SubSeq(StepIds, 1, k))
                                          \cup VarNames],
               outputs \in [1..k -> {None} \cup VarNames],
               flags \in [1..k -> BOOLEAN] :
                 pipelines = [id \in {"p"} |->
                                WithParallel(PipelineOf(k, kinds, inputs, outputs),
                                             flags)]
       \/ pipelines = [id \in {"p"} |-> LinearPipeline]
    /\ target \in {"p", Absent}
    /\ dag = <<>>
    /\ etl_schedules = NoSchedules
    /\ scheduler_enabled = TRUE
    /\ InitCommon

\* pipeline = self._load_pipeline(pipeline_id); raise ValueError if missing;
\* execution_id = self.state_manager.create_execution(pipeline_id=...)
TriggerPipeline ==
    /\ pc = "idle"
    /\ IF ~_load_pipeline(pipelines, target).found
       THEN /\ pc' = "not_found"
            /\ UNCHANGED executions
       ELSE /\ executions' = create_execution(executions, "pipeline", "manual")
            /\ pc' = "created"
    /\ UNCHANGED <<clock, sched_vars, params, serve_vars, dag, pipelines, target, tasks, logs, sorted_nodes, batches,
                   batch_idx, node_results, runs>>

\* success = await self.pipeline_executor.execute(pipeline, execution_id, params),
\* up to its first await
ExecutePipeline ==
    /\ pc = "started"
    /\ \E o \in _topological_sort_steps(_load_pipeline(pipelines, target).steps) :
          Apply(Direct, Execute(tasks, logs,
                                [runs[Direct] EXCEPT !.params = OrEmpty(params)],
                                Len(executions), o))
    /\ pc' = "executing"
    /\ UNCHANGED <<clock, sched_vars, params, serve_vars, dag, pipelines, target, executions, sorted_nodes, batches,
                   batch_idx, node_results>>

\* complete_execution(SUCCESS if success else FAILED); an exception out of
\* execute() takes the except branch
CompletePipeline ==
    /\ pc = "executing"
    /\ runs[Direct].pc = "done"
    /\ IF runs[Direct].result = "raised"
       THEN Raise(runs[Direct].error)
       ELSE /\ executions' =
                 complete_execution(executions, Len(executions),
                                    IF runs[Direct].result = "true"
                                    THEN SUCCESS ELSE FAILED,
                                    NoError)
            /\ pc' = "done"
    /\ UNCHANGED <<clock, sched_vars, params, serve_vars, dag, pipelines, target, tasks, logs, sorted_nodes, batches,
                   batch_idx, node_results, runs>>

NextPipe ==
    \/ TriggerPipeline
    \/ StartExecution
    \/ ExecutePipeline
    \/ \E rows \in Rows : PluginReturns(Direct, rows)
    \/ PluginRaises(Direct)
    \/ CompletePipeline

SpecPipe == InitPipe /\ [][NextPipe]_vars

(***************************************************************************)
(* CronScheduler: the table etl_schedules, the jobs, _active_schedules     *)
(***************************************************************************)
MaxEdits == 2     \* most changes made to etl_schedules in one behaviour

ScheduleIds == <<"A", "B", "C">>

\* Cron expressions, as their whitespace-separated fields; the last one is
\* not a crontab line
CronExprs ==
    {<<"0", "*", "*", "*", "*">>, <<"30", "2", "*", "*", "*">>, <<"@hourly">>}

Timezones == {"Asia/Shanghai", "UTC", "Mars/Olympus"}

\* The timezones pytz.timezone knows, of those above
KnownTimezones == {"Asia/Shanghai", "UTC"}

ScheduleNames == {"nightly", "renamed"}

\* The dag column: no node, or one node
Dags == {<<>>, <<DAGNode("n1", "p_ok", <<>>)>>}

NoInstant == <<>>   \* a NULL last_run_at / next_run_at

\* A row of etl_schedules, of the columns _load_schedules_from_db selects
ScheduleRow(name, cron_expr, timezone, enabled, dag_nodes) ==
    [name |-> name, cron_expr |-> cron_expr, timezone |-> timezone,
     enabled |-> enabled, dag |-> dag_nodes,
     last_run_at |-> NoInstant, next_run_at |-> NoInstant]

\* Schedule(id=str(row["id"]), name=row["name"], ...)
ScheduleOf(id, row) ==
    [id |-> id, name |-> row.name, cron_expr |-> row.cron_expr,
     timezone |-> row.timezone, enabled |-> row.enabled, dag |-> row.dag,
     last_run_at |-> row.last_run_at, next_run_at |-> row.next_run_at]

\* Variant: the WHERE clause is missing
_load_schedules_from_db_all(table) ==
    LET ids == SelectSeq(ScheduleIds, LAMBDA id : id \in DOMAIN table)
    IN [k \in 1..Len(ids) |-> ScheduleOf(ids[k], table[ids[k]])]

\* SELECT ... FROM etl_schedules WHERE enabled = true, as Schedule objects
_load_schedules_from_db(table) ==
    LET ids == SelectSeq(ScheduleIds,
                         LAMBDA id : id \in DOMAIN table /\ table[id].enabled)
    IN [k \in 1..Len(ids) |-> ScheduleOf(ids[k], table[ids[k]])]

\* Variant: the dag is not compared
_schedule_changed_but_dag(old, new) ==
    old.cron_expr # new.cron_expr \/ old.timezone # new.timezone

_schedule_changed(old, new) ==
    \/ old.cron_expr # new.cron_expr
    \/ old.timezone # new.timezone
    \/ old.dag # new.dag

\* f"schedule_{schedule.id}"
JobId(schedule_id) == <<"schedule_", schedule_id>>

\* CronTrigger.from_crontab(cron_expr, timezone=pytz.timezone(timezone)):
\* pytz raises for a timezone it does not know, from_crontab for a line that
\* has not five fields
from_crontab(cron_expr, timezone) ==
    IF timezone \notin KnownTimezones
    THEN [ok |-> FALSE, trigger |-> <<>>]
    ELSE IF Len(cron_expr) # 5
    THEN [ok |-> FALSE, trigger |-> <<>>]
    ELSE [ok |-> TRUE,
          trigger |-> [minute |-> cron_expr[1], hour |-> cron_expr[2],
                       day |-> cron_expr[3], month |-> cron_expr[4],
                       day_of_week |-> cron_expr[5], timezone |-> timezone]]

Drop(f, x) == [y \in DOMAIN f \ {x} |-> f[y]]

\* The scheduler's state st = (active, jobs, ops): _active_schedules, the
\* jobs of the APScheduler scheduler, and the add_job / remove_job calls
\* that took effect.

\* Variant: the schedule is not kept in _active_schedules
_add_job_not_kept(st, schedule) ==
    LET t == from_crontab(schedule.cron_expr, schedule.timezone) IN
    IF ~t.ok THEN st
    ELSE [st EXCEPT !.jobs = Put(@, JobId(schedule.id),
                                 [trigger |-> t.trigger, args |-> schedule]),
                    !.ops = @ \cup {<<"add_job", JobId(schedule.id)>>}]

\* try: trigger = ...; scheduler.add_job(replace_existing=True);
\*      _active_schedules[schedule.id] = schedule
\* except Exception: log
_add_job(st, schedule) ==
    LET t == from_crontab(schedule.cron_expr, schedule.timezone) IN
    IF ~t.ok THEN st
    ELSE [active |-> Put(st.active, schedule.id, schedule),
          jobs |-> Put(st.jobs, JobId(schedule.id),
                       [trigger |-> t.trigger, args |-> schedule]),
          ops |-> st.ops \cup {<<"add_job", JobId(schedule.id)>>}]

\* Variant: the entry of _active_schedules is left in place
_remove_job_keeps_entry(st, schedule_id) ==
    [active |-> st.active,
     jobs |-> Drop(st.jobs, JobId(schedule_id)),
     ops |-> IF JobId(schedule_id) \in DOMAIN st.jobs
             THEN st.ops \cup {<<"remove_job", JobId(schedule_id)>>}
             ELSE st.ops]

\* try: scheduler.remove_job(job_id) except Exception: pass;
\* _active_schedules.pop(schedule_id) if it is there
_remove_job(st, schedule_id) ==
    [active |-> Drop(st.active, schedule_id),
     jobs |-> Drop(st.jobs, JobId(schedule_id)),
     ops |-> IF JobId(schedule_id) \in DOMAIN st.jobs
             THEN st.ops \cup {<<"remove_job", JobId(schedule_id)>>}
             ELSE st.ops]

\* for schedule_id in current_schedule_ids - db_schedule_ids: _remove_job
RECURSIVE RemoveLoop(_, _)
RemoveLoop(ids, st) ==
    IF ids = {} THEN st
    ELSE LET id == CHOOSE x \in ids : TRUE
         IN RemoveLoop(ids \ {id}, _remove_job(st, id))

\* for schedule in db_schedules: add the new one, remove and add the changed
RECURSIVE SyncLoop(_, _, _)
SyncLoop(db_schedules, k, st) ==
    IF k > Len(db_schedules) THEN st
    ELSE LET schedule == db_schedules[k] IN
         IF schedule.id \notin DOMAIN st.active
         THEN SyncLoop(db_schedules, k + 1, _add_job(st, schedule))
         ELSE IF _schedule_changed(st.active[schedule.id], schedule)
         THEN SyncLoop(db_schedules, k + 1,
                       _add_job(_remove_job(st, schedule.id), schedule))
         ELSE SyncLoop(db_schedules, k + 1, st)

\* croniter(cron_expr, now.astimezone(tz)).get_next(): the next instant of
\* the expression in the timezone after `now`
get_next(cron_expr, timezone) == <<cron_expr, timezone, now>>

\* for schedule_id, schedule in _active_schedules.items():
\*     UPDATE etl_schedules SET next_run_at = ... WHERE id = schedule_id
_update_next_run_times(table, act) ==
    [id \in DOMAIN table |->
        IF id \in DOMAIN act
        THEN [table[id] EXCEPT !.next_run_at =
                 get_next(act[id].cron_expr, act[id].timezone)]
        ELSE table[id]]

\* _sync_schedules: the scheduler's state and the table afterwards
_sync_schedules(table, st) ==
    LET db_schedules == _load_schedules_from_db(table)
        db_schedule_ids == {db_schedules[k].id : k \in 1..Len(db_schedules)}
        current_schedule_ids == DOMAIN st.active
        st1 == RemoveLoop(current_schedule_ids \ db_schedule_ids,
                          [st EXCEPT !.ops = {}])
        st2 == SyncLoop(db_schedules, 1, st1)
    IN [st |-> st2, table |-> _update_next_run_times(table, st2.active)]

\* A row as it is first stored: hourly, in the default timezone, no node
DefaultRow(cron_expr, enabled) ==
    ScheduleRow("nightly", cron_expr, "Asia/Shanghai", enabled, <<>>)

HourlyCron == <<"0", "*", "*", "*", "*">>

\* The table at the start: any of the schedules, enabled or not
InitSched ==
    /\ \E ids \in SUBSET Range(ScheduleIds) :
         \E on \in [ids -> BOOLEAN] :
            etl_schedules = [id \in ids |-> DefaultRow(HourlyCron, on[id])]
    /\ dag = <<>>
    /\ pipelines = PipelineStore
    /\ target = None
    /\ scheduler_enabled = TRUE
    /\ InitCommon

exec_vars == <<dag, pipelines, target, executions, tasks, logs, pc, sorted_nodes,
               batches, batch_idx, node_results, runs, clock, params, serve_vars>>

\* await self._sync_schedules(), from start() and from _poll_loop
Reconcile ==
    LET r == _sync_schedules(etl_schedules,
                             [active |-> active, jobs |-> jobs, ops |-> {}])
    IN /\ active' = r.st.active
       /\ jobs' = r.st.jobs
       /\ job_ops' = r.st.ops
       /\ etl_schedules' = r.table
       /\ polled' = r.table

\* The running coroutine of the executor, if any, stands at an await: only
\* there does the event loop run another coroutine
AtAwait == pc \in {"idle", "gather", "executing"}

\* start(): nothing when the scheduler is disabled; otherwise the first
\* reconciliation, then scheduler.start(), which raises
\* SchedulerAlreadyRunningError on a running scheduler, then the poll task
start ==
    IF ~scheduler_enabled
    THEN /\ outcome' = <<"start", "returned">>
         /\ UNCHANGED <<etl_schedules, active, jobs, job_ops, polled, polling,
                        aps_state>>
    ELSE /\ Reconcile
         /\ IF aps_state = "running"
            THEN /\ outcome' = <<"start", "raised">>
                 /\ UNCHANGED <<polling, aps_state>>
            ELSE /\ outcome' = <<"start", "returned">>
                 /\ aps_state' = "running"
                 /\ polling' = TRUE

\* lifespan, before the yield: executor = DAGExecutor(); scheduler =
\* CronScheduler(executor); await scheduler.start()
Startup ==
    /\ ~initialized
    /\ initialized' = TRUE
    /\ start
    /\ UNCHANGED <<fired, edits, dag, pipelines, target, executions, tasks,
                   logs, pc, sorted_nodes, batches, batch_idx, node_results,
                   runs, clock, params, scheduler_enabled, caller>>

\* start() called on the scheduler the service holds
Start ==
    /\ initialized
    /\ AtAwait
    /\ start
    /\ UNCHANGED <<fired, edits, dag, pipelines, target, executions, tasks,
                   logs, pc, sorted_nodes, batches, batch_idx, node_results,
                   runs, clock, params, scheduler_enabled, initialized, caller>>

\* _poll_loop: after the sleep, one reconciliation
Poll ==
    /\ polling
    /\ AtAwait
    /\ Reconcile
    /\ UNCHANGED <<fired, polling, edits, exec_vars>>

\* The job of the schedule fires: _execute_schedule(schedule) with the
\* Schedule the job was added with; it writes last_run_at and hands the
\* schedule to DAGExecutor.execute_schedule
Fire(id) ==
    /\ polling
    /\ JobId(id) \in DOMAIN jobs
    /\ LET schedule == jobs[JobId(id)].args IN
       /\ etl_schedules' =
             [x \in DOMAIN etl_schedules |->
                 IF x = schedule.id
                 THEN [etl_schedules[x] EXCEPT !.last_run_at = <<now>>]
                 ELSE etl_schedules[x]]
       /\ fired' = <<schedule>>
    /\ UNCHANGED <<active, jobs, job_ops, polled, polling, edits, exec_vars>>

\* Changes made to etl_schedules from outside the engine
Edited(table) ==
    /\ edits < MaxEdits
    /\ edits' = edits + 1
    /\ etl_schedules' = table
    /\ UNCHANGED <<active, jobs, job_ops, polled, fired, polling, exec_vars>>

InsertRow(id, cron_expr, enabled) ==
    /\ id \notin DOMAIN etl_schedules
    /\ Edited(Put(etl_schedules, id, DefaultRow(cron_expr, enabled)))

DeleteRow(id) ==
    /\ id \in DOMAIN etl_schedules
    /\ Edited(Drop(etl_schedules, id))

SetEnabled(id) ==
    /\ id \in DOMAIN etl_schedules
    /\ Edited([etl_schedules EXCEPT ![id].enabled = ~@])

SetCronExpr(id, cron_expr) ==
    /\ id \in DOMAIN etl_schedules
    /\ etl_schedules[id].cron_expr # cron_expr
    /\ Edited([etl_schedules EXCEPT ![id].cron_expr = cron_expr])

SetTimezone(id, timezone) ==
    /\ id \in DOMAIN etl_schedules
    /\ etl_schedules[id].timezone # timezone
    /\ Edited([etl_schedules EXCEPT ![id].timezone = timezone])

SetDag(id, dag_nodes) ==
    /\ id \in DOMAIN etl_schedules
    /\ etl_schedules[id].dag # dag_nodes
    /\ Edited([etl_schedules EXCEPT ![id].dag = dag_nodes])

SetName(id, name) ==
    /\ id \in DOMAIN etl_schedules
    /\ etl_schedules[id].name # name
    /\ Edited([etl_schedules EXCEPT ![id].name = name])

NextSched ==
    \/ Startup
    \/ Poll
    \/ \E id \in Range(ScheduleIds) : Fire(id)
    \/ \E id \in Range(ScheduleIds), c \in CronExprs, on \in BOOLEAN :
          InsertRow(id, c, on)
    \/ \E id \in Range(ScheduleIds) : DeleteRow(id)
    \/ \E id \in Range(ScheduleIds) : SetEnabled(id)
    \/ \E id \in Range(ScheduleIds), c \in CronExprs : SetCronExpr(id, c)
    \/ \E id \in Range(ScheduleIds), tz \in Timezones : SetTimezone(id, tz)
    \/ \E id \in Range(ScheduleIds), d \in Dags : SetDag(id, d)
    \/ \E id \in Range(ScheduleIds), n \in ScheduleNames : SetName(id, n)

SpecSched == InitSched /\ [][NextSched]_vars

(***************************************************************************)
(* The poll loop while the store fails                                     *)
(***************************************************************************)
StoreIds == {"A", "B"}

\* The table at the start: the schedules A and B, or fewer, enabled or not
InitStore ==
    /\ \E ids \in SUBSET StoreIds :
         \E on \in [ids -> BOOLEAN] :
            etl_schedules = [id \in ids |-> DefaultRow(HourlyCron, on[id])]
    /\ dag = <<>>
    /\ pipelines = PipelineStore
    /\ target = None
    /\ scheduler_enabled = TRUE
    /\ InitCommon

\* Variant: the exception handler of the loop breaks out of it
PollStoreFails_ends_loop ==
    /\ polling
    /\ AtAwait
    /\ outcome' = <<"poll", "poll_error">>
    /\ job_ops' = {}
    /\ polling' = FALSE
    /\ UNCHANGED <<etl_schedules, active, jobs, polled, fired, edits, dag,
                   pipelines, target, executions, tasks, logs, pc,
                   sorted_nodes, batches, batch_idx, node_results, runs, clock,
                   params, scheduler_enabled, aps_state, initialized, caller>>

\* _poll_loop: one iteration in which the store fails. Either the SELECT of
\* _load_schedules_from_db raises: _sync_schedules has changed nothing yet
\* and `except Exception` of the loop logs poll_error; or the SELECT
\* succeeds and the UPDATE of _update_next_run_times raises for the
\* schedules `failed`, each one caught and logged inside its own try.
PollStoreFails ==
    /\ polling
    /\ AtAwait
    /\ \/ /\ outcome' = <<"poll", "poll_error">>
          /\ job_ops' = {}
          /\ UNCHANGED <<etl_schedules, active, jobs, polled>>
       \/ LET r == _sync_schedules(etl_schedules,
                                   [active |-> active, jobs |-> jobs,
                                    ops |-> {}])
          IN \E failed \in SUBSET DOMAIN r.st.active :
                /\ failed # {}
                /\ active' = r.st.active
                /\ jobs' = r.st.jobs
                /\ job_ops' = r.st.ops
                /\ etl_schedules' =
                      [id \in DOMAIN etl_schedules |->
                          IF id \in failed THEN etl_schedules[id]
                          ELSE r.table[id]]
                /\ polled' = etl_schedules'
                /\ outcome' = <<"poll", "failed_to_update_next_run">>
    /\ UNCHANGED <<fired, polling, edits, dag, pipelines, target, executions,
                   tasks, logs, pc, sorted_nodes, batches, batch_idx,
                   node_results, runs, clock, params, scheduler_enabled,
                   aps_state, initialized, caller>>

(***************************************************************************)
(* The service: lifespan, the scheduler's start and stop, the firings and  *)
(* the manual triggers, each run through the DAG executor                  *)
(***************************************************************************)
MaxRuns == 2   \* executions started in one behaviour

\* Two transforms that read each other's output
CyclicPipeline ==
    <<PipelineStep("a", TRANSFORM, "transform-filter", "y", "x"),
      PipelineStep("b", TRANSFORM, "transform-filter", "x", "y")>>

ServePipelines ==
    [id \in {"p_ok", "p_cyc"} |->
        IF id = "p_ok" THEN TwoStepPipeline ELSE CyclicPipeline]

ParamKeys == {"k1", "k2", "k3"}

\* A dict with the same value under each of its keys
Dict(keys, value) == [k \in keys |-> value]

\* The params of a trigger request: none, or a dict
CallerParams == {<<>>, <<Dict({"k1", "k2"}, "caller")>>}

\* The dag column of the schedules served: no node; one node with params;
\* a node that depends on itself; a node whose pipeline is cyclic next to
\* one whose pipeline is not
ServeDags ==
    {<<>>,
     <<[DAGNode("n1", "p_ok", <<>>) EXCEPT !.params = Dict({"k2", "k3"}, "node")]>>,
     <<DAGNode("n1", "p_ok", <<"n1">>)>>,
     <<DAGNode("n1", "p_cyc", <<>>), DAGNode("n2", "p_ok", <<>>)>>}

\* The schedule ids of the requests; the table holds A or nothing
ServeIds == {"A", "B"}

\* The row count the plugins return here
ServeRows == {MaxRows}

InitServe ==
    /\ \E ids \in SUBSET {"A"} :
         \E on \in [ids -> BOOLEAN], d \in [ids -> ServeDags] :
            etl_schedules =
               [id \in ids |-> ScheduleRow("nightly", HourlyCron,
                                           "Asia/Shanghai", on[id], d[id])]
    /\ scheduler_enabled \in BOOLEAN
    /\ dag = <<>>
    /\ pipelines = ServePipelines
    /\ target = None
    /\ InitCommon

\* The executor's locals of a call that begins
NewCall ==
    /\ sorted_nodes' = <<>>
    /\ batches' = <<>>
    /\ batch_idx' = 0
    /\ node_results' = [n \in {} |-> FALSE]
    /\ runs' = [r \in RunIds |-> NoRun]

\* execute_schedule(schedule, trigger, params) up to create_execution
execute_schedule(schedule, trigger, p, who) ==
    /\ executions' = create_execution(executions, "schedule", trigger)
    /\ dag' = schedule.dag
    /\ params' = p
    /\ caller' = <<[who |-> who, id |-> schedule.id]>>
    /\ pc' = "created"
    /\ NewCall

\* Variant: the UPDATE matches no row
_update_last_run_no_row(table, schedule_id) == table

\* UPDATE etl_schedules SET last_run_at = now WHERE id = schedule_id
_update_last_run(table, schedule_id) ==
    [x \in DOMAIN table |->
        IF x = schedule_id THEN [table[x] EXCEPT !.last_run_at = <<now>>]
        ELSE table[x]]

\* The job of a schedule fires: _execute_schedule(schedule). Either the
\* write of last_run_at raises, which the handler logs, or it is made and
\* execute_schedule(schedule, trigger="scheduled") begins
BeginFiring(id) ==
    /\ aps_state = "running"
    /\ JobId(id) \in DOMAIN jobs
    /\ pc = "idle" /\ caller = <<>>
    /\ Len(executions) < MaxRuns
    /\ LET schedule == jobs[JobId(id)].args IN
       \/ /\ outcome' = <<"firing", "write failed">>
          /\ UNCHANGED <<etl_schedules, fired, dag, executions, pc, sorted_nodes,
                         batches, batch_idx, node_results, runs, params, caller>>
       \/ /\ etl_schedules' = _update_last_run(etl_schedules, schedule.id)
          /\ fired' = <<schedule>>
          /\ execute_schedule(schedule, "scheduled", <<>>, "firing")
          /\ UNCHANGED outcome
    /\ UNCHANGED <<active, jobs, job_ops, polled, polling, edits, pipelines,
                   target, tasks, logs, clock, scheduler_enabled, aps_state,
                   initialized>>

\* The call is over: its locals are gone
Return(result) ==
    /\ outcome' = result
    /\ caller' = <<>>
    /\ pc' = "idle"
    /\ UNCHANGED <<sched_vars, dag, pipelines, target, executions, tasks, logs,
                   sorted_nodes, batches, batch_idx, node_results, runs, clock,
                   params, scheduler_enabled, aps_state, initialized>>

\* _execute_schedule: execute_schedule returned, or raised and the handler
\* logged schedule_execution_failed
EndFiring ==
    /\ caller # <<>> /\ caller[1].who = "firing"
    /\ pc \in {"done", "raised"}
    /\ Return(<<"firing", IF pc = "done" THEN "completed" ELSE "swallowed">>)

\* trigger_manual: the schedule of the active set, or else the one
\* _load_schedules_from_db returns under this id
Lookup(schedule_id) ==
    IF schedule_id \in DOMAIN active THEN <<active[schedule_id]>>
    ELSE LET schedules == _load_schedules_from_db(etl_schedules) IN
         SelectSeq(schedules, LAMBDA x : x.id = schedule_id)

\* POST /schedules/{schedule_id}/trigger up to the first await that yields:
\* 503 without scheduler, 404 when trigger_manual raises ValueError
trigger_schedule(schedule_id, p) ==
    /\ pc = "idle" /\ caller = <<>>
    /\ Len(executions) < MaxRuns
    /\ IF ~initialized
       THEN /\ outcome' = <<"trigger_schedule", "503">>
            /\ UNCHANGED <<dag, executions, pc, sorted_nodes, batches, batch_idx,
                           node_results, runs, params, caller>>
       ELSE IF Lookup(schedule_id) = <<>>
       THEN /\ outcome' = <<"trigger_schedule", "404">>
            /\ UNCHANGED <<dag, executions, pc, sorted_nodes, batches, batch_idx,
                           node_results, runs, params, caller>>
       ELSE /\ execute_schedule(Lookup(schedule_id)[1], "manual", p,
                                "trigger_schedule")
            /\ UNCHANGED outcome
    /\ UNCHANGED <<sched_vars, pipelines, target, tasks, logs, clock,
                   scheduler_enabled, aps_state, initialized>>

\* trigger_schedule / trigger_pipeline after the await: the TriggerResponse
\* with the execution id, or 404 for the ValueError the executor raised
Respond ==
    /\ caller # <<>> /\ caller[1].who \in {"trigger_schedule", "trigger_pipeline"}
    /\ pc \in {"done", "raised", "not_found"}
    /\ Return(IF pc = "done" THEN <<caller[1].who, "200", Len(executions)>>
              ELSE <<caller[1].who, "404">>)

\* POST /pipelines/{pipeline_id}/trigger: 503 without executor, otherwise
\* execute_pipeline(pipeline_id, trigger="manual", params)
trigger_pipeline(pipeline_id, p) ==
    /\ pc = "idle" /\ caller = <<>>
    /\ Len(executions) < MaxRuns
    /\ IF ~initialized
       THEN /\ outcome' = <<"trigger_pipeline", "503">>
            /\ UNCHANGED <<target, params, caller, sorted_nodes, batches,
                           batch_idx, node_results, runs>>
       ELSE /\ target' = pipeline_id
            /\ params' = p
            /\ caller' = <<[who |-> "trigger_pipeline", id |-> pipeline_id]>>
            /\ NewCall
            /\ UNCHANGED outcome
    /\ UNCHANGED <<sched_vars, dag, pipelines, executions, tasks, logs, pc, clock,
                   scheduler_enabled, aps_state, initialized>>

\* stop(): the poll task is cancelled; scheduler.shutdown(wait=True) raises
\* on a scheduler that was never started, and raises or returns, by the
\* version of the library, on one that was shut down before; on a running
\* one it empties the job store and, being a plain call, cannot wait for a
\* firing that stands at an await: the firing is cancelled there or left to
\* go on, by the version of the library. Then _active_schedules.clear()
Stop ==
    /\ initialized
    /\ AtAwait
    /\ polling' = FALSE
    /\ \/ /\ aps_state = "running"
          /\ aps_state' = "shutdown"
          /\ jobs' = NoSchedules
          /\ active' = NoSchedules
          /\ outcome' = <<"stop", "returned">>
          /\ \/ UNCHANGED <<caller, pc, runs>>
             \/ /\ caller # <<>> /\ caller[1].who = "firing"
                /\ caller' = <<>>
                /\ pc' = "idle"
                /\ runs' = [r \in RunIds |-> NoRun]
       \/ /\ aps_state = "new"
          /\ outcome' = <<"stop", "raised">>
          /\ UNCHANGED <<aps_state, jobs, active, caller, pc, runs>>
       \/ /\ aps_state = "shutdown"
          /\ \/ /\ outcome' = <<"stop", "raised">>
                /\ UNCHANGED active
             \/ /\ outcome' = <<"stop", "returned">>
                /\ active' = NoSchedules
          /\ UNCHANGED <<aps_state, jobs, caller, pc, runs>>
    /\ UNCHANGED <<etl_schedules, job_ops, polled, fired, edits, dag, pipelines,
                   target, executions, tasks, logs, sorted_nodes, batches,
                   batch_idx, node_results, clock, params,
                   scheduler_enabled, initialized>>

\* The scheduler's life while the table is edited and the store fails
NextStore ==
    \/ Startup
    \/ Poll
    \/ PollStoreFails
    \/ Start
    \/ Stop
    \/ \E id \in StoreIds, c \in CronExprs, on \in BOOLEAN :
          InsertRow(id, c, on)
    \/ \E id \in StoreIds : DeleteRow(id)
    \/ \E id \in StoreIds : SetEnabled(id)
    \/ \E id \in StoreIds, c \in CronExprs : SetCronExpr(id, c)

SpecStore == InitStore /\ [][NextStore]_vars

Calling(who) == caller # <<>> /\ caller[1].who \in who

NextServe ==
    \/ Startup
    \/ Start
    \/ Stop
    \/ Poll
    \/ \E id \in ServeIds : BeginFiring(id)
    \/ EndFiring
    \/ \E id \in ServeIds, p \in CallerParams : trigger_schedule(id, p)
    \/ \E id \in DOMAIN ServePipelines \cup {Absent}, p \in CallerParams :
          trigger_pipeline(id, p)
    \/ Respond
    \/ \E id \in ServeIds : pc = "idle" /\ caller = <<>> /\ DeleteRow(id)
    \/ Calling({"trigger_pipeline"}) /\ TriggerPipeline
    \/ StartExecution
    \/ Calling({"trigger_pipeline"}) /\ ExecutePipeline
    \/ \E rows \in ServeRows : PluginReturns(Direct, rows)
    \/ PluginRaises(Direct)
    \/ Calling({"trigger_pipeline"}) /\ CompletePipeline
    \/ Calling({"firing", "trigger_schedule"}) /\ TopologicalSort
    \/ GetExecutionBatches
    \/ DispatchBatch
    \/ Gather
    \/ CompleteExecution
    \/ \E n \in NodeIds : ExecuteNode(n)
    \/ \E n \in NodeIds, rows \in ServeRows : PluginReturns(n, rows)
    \/ \E n \in NodeIds : PluginRaises(n)

SpecServe == InitServe /\ [][NextServe]_vars

(***************************************************************************)
(* The dependency relation of a DAG, stated on the graph                   *)
(***************************************************************************)
Deps(d, id) == Range(NodeOf(d, id).depends_on)

\* The nodes reached from the set S in at most k dependency steps
RECURSIVE Reach(_, _, _)
Reach(d, S, k) ==
    IF k = 0 THEN S
    ELSE Reach(d, S \cup (UNION {Deps(d, id) : id \in S} \cap Ids(d)), k - 1)

\* The direct and transitive predecessors of a node
Ancestors(d, id) == Reach(d, Deps(d, id) \cap Ids(d), Len(d))

HasCycle(d) == \E id \in Ids(d) : id \in Ancestors(d, id)

Closed(d) == \A id \in Ids(d) : Deps(d, id) \subseteq Ids(d)

NoRepeats(d) ==
    \A id \in Ids(d) :
        Cardinality(Deps(d, id)) = Len(NodeOf(d, id).depends_on)

\* c[1] depends on c[2], which depends on c[3], ...
IsChain(d, c) == \A i \in 1..(Len(c) - 1) : c[i + 1] \in Deps(d, c[i])

\* The number of nodes of the longest dependency chain of an acyclic DAG
LongestChain(d) ==
    CHOOSE m \in 0..Len(d) :
        /\ \E c \in [1..m -> Ids(d)] : IsChain(d, c)
        /\ \A k \in (m + 1)..Len(d) : \A c \in [1..k -> Ids(d)] : ~IsChain(d, c)

\* The batches that hold the node
BatchesOf(bs, id) ==
    {b \in 1..Len(bs) : \E j \in 1..Len(bs[b]) : bs[b][j].id = id}

BatchOf(bs, id) == CHOOSE b \in BatchesOf(bs, id) : TRUE

Occurrences(bs, id) ==
    Cardinality({<<b, j>> \in (1..Len(bs)) \X (1..Cardinality(NodeIds)) :
                    j <= Len(bs[b]) /\ bs[b][j].id = id})

Max(S) == CHOOSE x \in S : \A y \in S : y <= x

C2_CycleFailsExecution ==
    (pc \notin {"idle", "created", "started"} /\ HasCycle(dag)) =>
        /\ pc = "raised"
        /\ Len(executions) = 1
        /\ executions[1].status = FAILED
        /\ executions[1].error = CircularDag
        /\ tasks = <<>>
        /\ \A n \in NodeIds : runs[n] = NoRun

\* A node that depends on itself, next to a node without dependencies
C2_Witness ==
    /\ pc = "raised"
    /\ Len(dag) = 2
    /\ Deps(dag, "n1") = {}
    /\ Deps(dag, "n2") = {"n2"}

\* The node's result is false: recorded so, or its task ended otherwise than
\* by returning true
Failed(id) ==
    \/ id \in DOMAIN node_results /\ ~node_results[id]
    \/ runs[id].pc = "done" /\ runs[id].result # "true"

\* C3: a node with a direct or transitive predecessor whose result is false
\* (failed, timed out or skipped) is never run: its coroutine is never
\* started, so its pipeline is not loaded and it creates no task record; its
\* result, once recorded, is false; and the execution ends failed.
C3_FailedPredecessorSkips ==
    pc \in {"batch", "gather", "done"} =>
        \A id \in Ids(dag) :
            (\E a \in Ancestors(dag, id) : Failed(a)) =>
                /\ runs[id] = NoRun
                /\ id \in DOMAIN node_results => ~node_results[id]
                /\ pc = "done" =>
                     /\ id \in DOMAIN node_results
                     /\ executions[1].status = FAILED

\* n1 timed out, n2 depends on n1, n3 depends on n2 only
C3_Witness ==
    /\ pc = "done"
    /\ Len(dag) = 3
    /\ runs["n1"].why = "timeout"
    /\ Deps(dag, "n2") = {"n1"}
    /\ Deps(dag, "n3") = {"n2"}
    /\ runs["n3"] = NoRun
    /\ ~node_results["n3"]

\* C4: when execute_schedule has run all batches, the status it writes is
\* success if every node of the DAG has result true (its task returned
\* true), and failed otherwise.
C4_TerminalStatus ==
    pc = "done" =>
        /\ \A id \in Ids(dag) :
              /\ id \in DOMAIN node_results
              /\ node_results[id] <=> runs[id].result = "true"
        /\ executions[1].status =
              IF \A id \in Ids(dag) : node_results[id] THEN SUCCESS ELSE FAILED
        /\ executions[1].finished

\* Three nodes in two batches, all successful
C4_Witness ==
    /\ pc = "done"
    /\ Len(dag) = 3
    /\ Len(batches) = 2
    /\ executions[1].status = SUCCESS

\* C5: a failing node (a step raised, the node timed out, its pipeline is
\* absent, its task raised) does not abort the DAG execution: no exception
\* leaves execute_schedule once a node was started, and at the end every node
\* whose predecessors all returned true has been run to its end.
C5_IndependentNodesRun ==
    /\ pc = "raised" => \A n \in NodeIds : runs[n] = NoRun
    /\ pc = "done" =>
          \A id \in Ids(dag) :
              (\A a \in Ancestors(dag, id) : runs[a].result = "true") =>
                  runs[id].pc = "done"

\* n1's task raised; n2 (same batch) and n3 (later batch, depends on n2) ran
C5_Witness ==
    /\ pc = "done"
    /\ Len(dag) = 3
    /\ runs["n1"].why = "exception"
    /\ Deps(dag, "n3") = {"n2"}
    /\ runs["n2"].result = "true"
    /\ runs["n3"].result = "true"

\* A node that was started has all its dependencies finished and recorded
StartedAfterDependencies ==
    pc \in {"batch", "gather", "done"} =>
        \A id \in Ids(dag) :
            runs[id].pc # "none" =>
                \A dep \in Deps(dag, id) :
                    /\ runs[dep].pc = "done"
                    /\ dep \in DOMAIN node_results

\* A finished node makes no further transition: its coroutine and the task
\* records it created stay as they are
FinishedIsFinal ==
    \A id \in NodeIds :
        runs[id].pc = "done" =>
            /\ runs'[id] = runs[id]
            /\ \A t \in Range(runs[id].created) : tasks'[t] = tasks[t]

\* C6: under every interleaving of the node tasks, a node is started (and so
\* creates or starts a task record) only after every node of its depends_on
\* has finished, with its result recorded, and a finished node's task records
\* make no later transition.
C6_DependenciesHappenBefore ==
    [](StartedAfterDependencies) /\ [][FinishedIsFinal]_vars

\* n2 depends on n1 and has created a task; n1 created two
C6_Witness ==
    /\ Len(dag) >= 2
    /\ Deps(dag, "n2") = {"n1"}
    /\ Len(runs["n1"].created) = 2
    /\ Len(runs["n2"].created) >= 1

(***************************************************************************)
(* The step dependencies of a pipeline                                     *)
(***************************************************************************)
\* The dependency set as specified: S depends on T when S declares an input
\* that is T's id or T's output
SpecDependencies(steps, step) ==
    IF step.input = None THEN {}
    ELSE {t.id : t \in {u \in Range(steps) :
                           u.id = step.input \/ u.output = step.input}}

RECURSIVE ReachSteps(_, _, _)
ReachSteps(steps, S, k) ==
    IF k = 0 THEN S
    ELSE ReachSteps(steps,
                    S \cup UNION {dependencies(steps, StepOf(steps, id)) : id \in S},
                    k - 1)

\* The derived step dependencies contain a cycle
HasStepCycle(steps) ==
    \E s \in Range(steps) :
        s.id \in ReachSteps(steps, dependencies(steps, s), Len(steps))

ThePipeline == pipelines[target]

\* C7: the linear pipeline a(extract, no input, output=x), b(transform,
\* input=x, output=y), c(load, input=y, no output), none of whose plugins
\* fails, is executed successfully: execute returns true and leaves exactly
\* the three task records a, b, c, all success, with the row counts
\* (0, |x|), (|x|, |y|), (|y|, rows written).
C7_LinearPipelineSucceeds ==
    (/\ target = "p"
     /\ ThePipeline = LinearPipeline
     /\ runs[Direct].pc = "done"
     /\ runs[Direct].why # "step_failed") =>
        /\ runs[Direct].result = "true"
        /\ Len(tasks) = 3
        /\ <<tasks[1].node_id, tasks[2].node_id, tasks[3].node_id>> = <<"a", "b", "c">>
        /\ \A t \in 1..3 : tasks[t].status = SUCCESS
        /\ tasks[1].input_rows = 0
        /\ tasks[2].input_rows = tasks[1].output_rows
        /\ tasks[3].input_rows = tasks[2].output_rows

\* C8: the dependency set _topological_sort derives for a step is the set of
\* steps whose id or output the step's declared input names, and is empty for
\* a step without input; so a pipeline of one extract step without input
\* (its plugin registered and not failing) is valid and leaves one task.
C8_DependencyDerivation ==
    (target = "p" /\ runs[Direct].pc # "none") =>
        /\ \A s \in Range(ThePipeline) :
              dependencies(ThePipeline, s) = SpecDependencies(ThePipeline, s)
        /\ (/\ Len(ThePipeline) = 1
            /\ ThePipeline[1].type = EXTRACT
            /\ ThePipeline[1].input = None
            /\ ThePipeline[1].plugin \in _extract_plugins
            /\ runs[Direct].pc = "done"
            /\ runs[Direct].why # "step_failed") =>
               /\ runs[Direct].result = "true"
               /\ Len(tasks) = 1

\* C9: when the step dependencies of the pipeline contain a cycle, execute
\* raises "Circular dependency detected at: ..." before any step runs: no
\* task record and no log record is created, no plugin is constructed or
\* called, the variable environment stays empty; execute_pipeline ends the
\* execution failed with that error.
C9_StepCycleFailsFirst ==
    (target = "p" /\ runs[Direct].pc # "none" /\ HasStepCycle(ThePipeline)) =>
        /\ runs[Direct].pc = "done"
        /\ runs[Direct].result = "raised"
        /\ runs[Direct].error # NoError
        /\ runs[Direct].error[1] = "Circular dependency detected at"
        /\ tasks = <<>>
        /\ logs = <<>>
        /\ runs[Direct].plugin_calls = 0
        /\ runs[Direct].env = <<>>
        /\ runs[Direct].created = <<>>
        /\ pc \in {"executing", "raised"}
        /\ pc = "raised" =>
             /\ executions[1].status = FAILED
             /\ executions[1].error = runs[Direct].error

\* Two steps that read each other's output: a(input=y, output=x),
\* b(input=x, output=y)
C9_Witness ==
    /\ pc = "raised"
    /\ Len(ThePipeline) = 2
    /\ ThePipeline[1].input = "y" /\ ThePipeline[1].output = "x"
    /\ ThePipeline[2].input = "x" /\ ThePipeline[2].output = "y"

\* C10: when a step fails (unknown plugin, input not resolvable, plugin
\* raises), execute sets the step's task to failed with the error message,
\* appends exactly one ERROR log record "Step {name} failed: {msg}" for that
\* task, returns false, creates no task and calls no plugin for a later step,
\* and the tasks of the earlier steps keep status success.
C10_FirstFailureAborts ==
    LET run == runs[Direct] IN
    run.why = "step_failed" =>
        /\ run.result = "false"
        /\ run.error # NoError
        /\ Len(tasks) = run.i
        /\ run.task_id = run.i
        /\ run.created = [k \in 1..run.i |-> k]
        /\ tasks[run.i].node_id = run.steps[run.i].id
        /\ tasks[run.i].status = FAILED
        /\ tasks[run.i].error = run.error
        /\ \A k \in 1..(run.i - 1) :
              /\ tasks[k].status = SUCCESS
              /\ tasks[k].node_id = run.steps[k].id
        /\ logs = <<[execution_id |-> 1, task_id |-> run.i, level |-> "ERROR",
                     message |-> <<"Step", run.steps[run.i].name, "failed",
                                   run.error>>]>>
        /\ run.plugin_calls <= run.i
        /\ pc = "done" => executions[1].status = FAILED

\* The second step fails on an input no step produced, after a successful
\* first step
C10_Witness ==
    /\ pc = "done"
    /\ runs[Direct].why = "step_failed"
    /\ runs[Direct].i = 2
    /\ runs[Direct].error[1] = "Input not found"
    /\ tasks[1].status = SUCCESS

(***************************************************************************)
(* The records a successful step leaves                                    *)
(***************************************************************************)
\* The frame a transform or load step is given: the one bound under its
\* declared input, else a frame of the environment
InputFrame(env, step) ==
    IF step.input # None THEN get_variable(env, step.input) ELSE env[1].frame

\* The key a step's result frame is bound under
OutputKey(step) == IF step.output # None THEN step.output ELSE step.id

\* C11: when the plugin of a step returns, the step's task record is set to
\* success with input_rows = 0 for an extract step and the row count of the
\* step's input frame for a transform or load step, and with output_rows =
\* the row count of the frame returned (extract, transform) or the
\* rows-written value returned (load).
C11_RowCounts ==
    [][\A rows \in Rows :
          PluginReturns(Direct, rows) =>
             LET run == runs[Direct]
                 step == run.steps[run.i]
                 t == tasks'[run.task_id]
             IN /\ t.status = SUCCESS
                /\ t.node_id = step.id
                /\ t.input_rows = IF step.type = EXTRACT THEN 0
                                  ELSE InputFrame(run.env, step)
                /\ t.output_rows = rows]_vars

\* An extract of MaxRows rows, then a transform of them that returns none
C11_Witness ==
    /\ Len(tasks) = 2
    /\ runs[Direct].steps[2].type = TRANSFORM
    /\ tasks[1].status = SUCCESS /\ tasks[2].status = SUCCESS
    /\ tasks[1].input_rows = 0 /\ tasks[1].output_rows = MaxRows
    /\ tasks[2].input_rows = MaxRows /\ tasks[2].output_rows = 0

\* C12: when the plugin of an extract or transform step returns a frame, the
\* environment afterwards holds that frame under step.output, or under
\* step.id when the step declares no output, and the output_rows written to
\* the step's task is the row count of the frame bound under that key.
C12_OutputBound ==
    [][\A rows \in Rows :
          (PluginReturns(Direct, rows)
             /\ runs[Direct].steps[runs[Direct].i].type # LOAD) =>
             LET run == runs[Direct]
                 key == OutputKey(run.steps[run.i])
                 env == runs'[Direct].env
             IN /\ key \in Keys(env)
                /\ get_variable(env, key) = rows
                /\ tasks'[run.task_id].output_rows = get_variable(env, key)]_vars

\* Two successful steps that bind frames of different row counts: the first
\* under its declared output, the second, without output, under its id
C12_Witness ==
    /\ runs[Direct].result = "true"
    /\ Len(runs[Direct].steps) = 2
    /\ runs[Direct].steps[1].output = "x"
    /\ runs[Direct].steps[2].output = None
    /\ runs[Direct].steps[2].type = TRANSFORM
    /\ get_variable(runs[Direct].env, "x") = MaxRows
    /\ get_variable(runs[Direct].env, runs[Direct].steps[2].id) = 0

(***************************************************************************)
(* Node deadlines                                                          *)
(***************************************************************************)
\* The pipeline of the node had not finished when its deadline came: it was
\* cut off, or a step of it ended later than the deadline
Overran(n) ==
    /\ runs[n].pc = "done"
    /\ runs[n].deadline # Null
    /\ \/ runs[n].why = "timeout"
       \/ \E t \in Range(runs[n].created) : tasks[t].finished_at > runs[n].deadline

\* C13: a node whose pipeline has not finished `timeout` seconds after the
\* node was started is cut off by the deadline: no step of it is started
\* later than the deadline, its result is false, none of its dependents is
\* run, and the execution ends failed.
C13_DeadlineEnforced ==
    pc = "done" =>
        \A n \in Ids(dag) :
            Overran(n) =>
                /\ \A t \in Range(runs[n].created) :
                       tasks[t].started_at <= runs[n].deadline
                /\ ~node_results[n]
                /\ \A m \in Ids(dag) :
                       n \in Ancestors(dag, m) =>
                           runs[m] = NoRun /\ ~node_results[m]
                /\ executions[1].status = FAILED

\* C14: when the deadline of a node cuts off a running step, the task record
\* of that step ends failed, finished and with an error, and the execution
\* ends failed.
C14_TimeoutFailsTask ==
    pc = "done" =>
        \A n \in Ids(dag) :
            (runs[n].why = "timeout" /\ runs[n].created # <<>>) =>
                /\ tasks[runs[n].task_id].status = FAILED
                /\ tasks[runs[n].task_id].finished
                /\ tasks[runs[n].task_id].error # NoError
                /\ executions[1].status = FAILED

\* C15: execute_schedule of a schedule without nodes raises nothing, creates
\* one execution record and no task record, and ends the execution success.
C15_EmptyDagSucceeds ==
    dag = <<>> =>
        /\ pc # "raised"
        /\ tasks = <<>>
        /\ Len(executions) <= 1
        /\ pc = "done" =>
              /\ Len(executions) = 1
              /\ executions[1].status = SUCCESS
              /\ executions[1].error = NoError

C15_Witness ==
    /\ dag = <<>>
    /\ pc = "done"
    /\ batches = <<>>
    /\ Len(executions) = 1

(***************************************************************************)
(* The life of an execution record and of a task record                    *)
(***************************************************************************)
Terminal == {SUCCESS, FAILED, "cancelled"}

\* pending -> running -> terminal, one step at a time or none
StatusStep(old, new) ==
    \/ new = old
    \/ old = PENDING /\ new = RUNNING
    \/ old = RUNNING /\ new \in Terminal

\* The records of the table: new ones start pending, the others move by
\* StatusStep, and a terminal one stays as it is in every field
Monotone(old, new) ==
    /\ Len(new) >= Len(old)
    /\ \A i \in 1..Len(old) :
          /\ StatusStep(old[i].status, new[i].status)
          /\ old[i].status \in Terminal => new[i] = old[i]
    /\ \A i \in (Len(old) + 1)..Len(new) : new[i].status \in {PENDING, RUNNING}

\* C16: in every step of execute_schedule the status of each execution
\* record and of each task record stays or moves pending -> running or
\* running -> {success, failed, cancelled}; a record in a terminal status is
\* not changed in any field (status, timestamps, row counts, error).
C16_StatusMonotone ==
    [][Monotone(executions, executions') /\ Monotone(tasks, tasks')]_vars

\* One task ended success and one ended failed, both started before they
\* ended, under an execution ended failed
C16_Witness ==
    /\ pc = "done"
    /\ executions[1].status = FAILED
    /\ \E t, u \in 1..Len(tasks) :
          /\ tasks[t].status = SUCCESS /\ tasks[u].status = FAILED
          /\ tasks[t].started_at < tasks[t].finished_at

\* C17: an execution record in a terminal status has finished_at >=
\* started_at and duration = (finished_at - started_at) in milliseconds >= 0
\* (0 without started_at); a pending or running one has neither finished_at
\* nor duration.
C17_Duration ==
    \A i \in 1..Len(executions) :
        LET e == executions[i] IN
        /\ e.status \in Terminal \cup {PENDING, RUNNING}
        /\ e.status \in Terminal =>
              /\ e.finished_at # Null
              /\ e.finished_at >= e.started_at
              /\ e.duration >= 0
              /\ e.duration = IF e.started_at = Null THEN 0
                              ELSE (e.finished_at - e.started_at) * MsPerSecond
        /\ e.status \in {PENDING, RUNNING} =>
              /\ e.finished_at = Null
              /\ e.duration = Null

\* An execution that ended MaxClock seconds after it was started
C17_Witness ==
    /\ pc = "done"
    /\ executions[1].started_at = 0
    /\ executions[1].finished_at = MaxClock
    /\ executions[1].duration = MaxClock * MsPerSecond

(***************************************************************************)
(* The cron scheduler                                                      *)
(***************************************************************************)

EnabledIds(table) == {id \in DOMAIN table : table[id].enabled}

\* The row's expression and timezone make a cron trigger
Accepted(row) == from_crontab(row.cron_expr, row.timezone).ok

\* The fields of a trigger, as a crontab line and its timezone
TriggerLine(trigger) ==
    <<trigger.minute, trigger.hour, trigger.day, trigger.month,
      trigger.day_of_week>>

JobsOf(ids) == {JobId(id) : id \in ids}

\* C18 as stated: after a reconciliation the active set is the set of the
\* schedules that were enabled in the store at that poll.
C18_ActiveIsEnabled ==
    polling => DOMAIN active = EnabledIds(polled)

\* C18: after a reconciliation the active set, and the set of cron jobs, is
\* the set of the schedules enabled in the store at that poll whose cron
\* expression and timezone make a cron trigger; every other schedule has no
\* job and no entry.
C18_ActiveIsEnabledAccepted ==
    polling =>
        /\ DOMAIN active =
              {id \in EnabledIds(polled) : Accepted(polled[id])}
        /\ DOMAIN jobs = JobsOf(DOMAIN active)

\* One poll that kept A, removed B and added C
C18_Witness ==
    /\ polling
    /\ DOMAIN active = {"A", "C"}
    /\ DOMAIN jobs = JobsOf({"A", "C"})
    /\ job_ops = {<<"remove_job", JobId("B")>>, <<"add_job", JobId("C")>>}
    /\ "B" \in DOMAIN polled /\ ~polled["B"].enabled
    /\ polled["C"].next_run_at # NoInstant

\* The stored version of an active schedule differs from the one in use
VersionChanged(id) ==
    \/ active[id].cron_expr # etl_schedules[id].cron_expr
    \/ active[id].timezone # etl_schedules[id].timezone
    \/ active[id].dag # etl_schedules[id].dag

\* The job of the schedule after the step is built from the stored row
JobFromStore(id) ==
    /\ JobId(id) \in DOMAIN jobs'
    /\ TriggerLine(jobs'[JobId(id)].trigger) = etl_schedules[id].cron_expr
    /\ jobs'[JobId(id)].trigger.timezone = etl_schedules[id].timezone
    /\ jobs'[JobId(id)].args = ScheduleOf(id, etl_schedules[id])

Replaced(id) ==
    /\ <<"remove_job", JobId(id)>> \in job_ops'
    /\ <<"add_job", JobId(id)>> \in job_ops'
    /\ JobFromStore(id)

Untouched(id) ==
    /\ <<"remove_job", JobId(id)>> \notin job_ops'
    /\ <<"add_job", JobId(id)>> \notin job_ops'
    /\ jobs'[JobId(id)] = jobs[JobId(id)]
    /\ active'[id] = active[id]

\* A firing of the schedule is given the version the last poll found
FiresPolledVersion(id) ==
    /\ fired'[1].id = id
    /\ fired'[1].cron_expr = polled[id].cron_expr
    /\ fired'[1].timezone = polled[id].timezone
    /\ fired'[1].dag = polled[id].dag
    /\ TriggerLine(jobs[JobId(id)].trigger) = polled[id].cron_expr
    /\ jobs[JobId(id)].trigger.timezone = polled[id].timezone

\* C19 as stated: a reconciliation that finds the cron_expr, timezone or dag
\* of an active, enabled schedule changed removes its job and installs one
\* built from the stored version; it touches no job of a schedule of which
\* only other fields changed; a firing uses the version of the last poll.
C19_ChangeReplacesJob ==
    [][/\ Poll =>
            \A id \in DOMAIN active \cap EnabledIds(etl_schedules) :
                IF VersionChanged(id) THEN Replaced(id) ELSE Untouched(id)
       /\ \A id \in Range(ScheduleIds) : Fire(id) => FiresPolledVersion(id)
      ]_vars

\* C19: a reconciliation that finds the cron_expr, timezone or dag of an
\* active, enabled schedule changed removes its job and, when the stored
\* expression and timezone make a cron trigger, installs one built from the
\* stored version (otherwise the schedule is left without job and entry); it
\* touches no job of a schedule of which only other fields changed; a firing
\* uses the version of the last poll.
C19_ChangeReplacesAcceptedJob ==
    [][/\ Poll =>
            \A id \in DOMAIN active \cap EnabledIds(etl_schedules) :
                IF VersionChanged(id)
                THEN /\ <<"remove_job", JobId(id)>> \in job_ops'
                     /\ IF Accepted(etl_schedules[id])
                        THEN Replaced(id)
                        ELSE /\ JobId(id) \notin DOMAIN jobs'
                             /\ id \notin DOMAIN active'
                ELSE Untouched(id)
       /\ \A id \in Range(ScheduleIds) : Fire(id) => FiresPolledVersion(id)
      ]_vars

\* A was given another dag and another expression in the store, a poll
\* replaced its job, and the job fired with the stored dag and expression
C19_Witness ==
    /\ polling
    /\ job_ops = {<<"remove_job", JobId("A")>>, <<"add_job", JobId("A")>>}
    /\ fired # <<>>
    /\ fired[1].id = "A"
    /\ fired[1].dag # <<>>
    /\ fired[1].cron_expr # HourlyCron
    /\ fired[1].dag = etl_schedules["A"].dag
    /\ fired[1].cron_expr = etl_schedules["A"].cron_expr

\* C20: wherever the store is as the previous reconciliation left it, a
\* reconciliation adds no job, removes no job and leaves the active set and
\* the jobs as they are.
C20_SyncIdempotent ==
    (polling /\ etl_schedules = polled) =>
        LET r == _sync_schedules(etl_schedules,
                                 [active |-> active, jobs |-> jobs, ops |-> {}])
        IN /\ r.st.ops = {}
           /\ r.st.active = active
           /\ r.st.jobs = jobs

\* A second reconciliation of a store nobody changed, with two schedules
\* active and one disabled
C20_Witness ==
    /\ polling
    /\ edits = 0
    /\ job_ops = {}
    /\ DOMAIN active = {"A", "B"}
    /\ "C" \in DOMAIN etl_schedules
    /\ etl_schedules = polled

(***************************************************************************)
(* The service                                                             *)
(***************************************************************************)

\* The firing that began in this step wrote last_run_at and created the
\* execution with the trigger "scheduled"
FiringBegan(id) ==
    /\ executions'[Len(executions')].trigger = "scheduled"
    /\ executions'[Len(executions')].status = PENDING
    /\ id \in DOMAIN etl_schedules =>
          etl_schedules'[id].last_run_at = <<now>>

\* C21: a firing writes last_run_at and calls the executor with the trigger
\* "scheduled"; whether the write raises, the execution raises or it
\* returns, the handler returns, the jobs and the active set are as before
\* and the scheduler still runs.
C21_FiringSwallows ==
    [][/\ \A id \in ServeIds :
            BeginFiring(id) =>
               /\ jobs' = jobs /\ active' = active /\ aps_state' = aps_state
               /\ IF executions' # executions THEN FiringBegan(id)
                  ELSE outcome' = <<"firing", "write failed">> /\ caller' = <<>>
       /\ EndFiring =>
               /\ jobs' = jobs /\ active' = active /\ aps_state' = aps_state
               /\ caller' = <<>>
               /\ outcome'[1] = "firing"
               /\ pc = "raised" => executions[Len(executions)].status = FAILED
      ]_vars

\* The job of A fires again after its firing failed on the invalid DAG
C21_Witness ==
    /\ Len(executions) = 2
    /\ executions[1].trigger = "scheduled"
    /\ executions[1].status = FAILED
    /\ executions[1].error = CircularDag
    /\ executions[2].trigger = "scheduled"
    /\ Calling({"firing"})
    /\ fired[1].id = "A"

\* The call of this step returned and left the jobs, the active set and the
\* reconciliation loop as they were
NoOp(op) ==
    /\ outcome' = <<op, "returned">>
    /\ jobs' = jobs
    /\ active' = active
    /\ polling' = polling
    /\ aps_state' = aps_state

\* C22: start() on a running scheduler and stop() on a scheduler that does
\* not run (never started, started with the scheduler disabled, or stopped
\* before) return without raising and change neither the jobs nor the
\* active set nor the reconciliation loop.
C22_StartStopNoOp ==
    [][/\ (Start /\ aps_state = "running") => NoOp("start")
       /\ (Stop /\ aps_state # "running") => NoOp("stop")
      ]_vars

\* C23: stop() on a running scheduler cancels the reconciliation loop and
\* returns only when the execution of every firing is in a terminal status,
\* with the active set empty and no job installed; once the scheduler is
\* shut down no reconciliation and no firing begins.
C23_StopWaitsForFirings ==
    [][/\ (Stop /\ aps_state = "running") =>
            /\ outcome' = <<"stop", "returned">>
            /\ ~polling'
            /\ active' = NoSchedules
            /\ jobs' = NoSchedules
            /\ \A i \in 1..Len(executions') :
                  executions'[i].trigger = "scheduled" =>
                     executions'[i].status \in Terminal
       /\ aps_state = "shutdown" =>
            /\ ~Poll
            /\ \A id \in ServeIds : ~BeginFiring(id)
      ]_vars

\* The step began an execution with the trigger "manual" on these nodes
ManualRunBegan(nodes) ==
    /\ Len(executions') = Len(executions) + 1
    /\ executions'[Len(executions')].trigger = "manual"
    /\ executions'[Len(executions')].kind = "schedule"
    /\ dag' = nodes

\* C24: trigger_manual runs a schedule of the active set, or else the one
\* the store holds under the id, through the DAG executor with the trigger
\* "manual" and returns the id of the new execution; when the store holds
\* no schedule of that id either, it fails with "not found" and creates no
\* execution record.
C24_TriggerManual ==
    [][/\ \A id \in ServeIds, p \in CallerParams :
            (initialized /\ trigger_schedule(id, p)) =>
               IF id \in DOMAIN active THEN ManualRunBegan(active[id].dag)
               ELSE IF id \in DOMAIN etl_schedules
               THEN ManualRunBegan(etl_schedules[id].dag)
               ELSE /\ outcome' = <<"trigger_schedule", "404">>
                    /\ executions' = executions
       /\ (Respond /\ Calling({"trigger_schedule"}) /\ pc = "done") =>
               outcome' = <<"trigger_schedule", "200", Len(executions)>>
      ]_vars

\* C25: the step of a trigger request that creates the execution record
\* answers with the execution id; the run proceeds after the response.
C25_ReturnsImmediately ==
    [][(/\ Len(executions') = Len(executions) + 1
        /\ executions'[Len(executions')].trigger = "manual") =>
          /\ Len(outcome') = 3
          /\ outcome'[2] = "200"
          /\ outcome'[3] = Len(executions')
          /\ executions'[Len(executions')].status \in {PENDING, RUNNING}
      ]_vars

\* A trigger request without the service's scheduler / executor: 503
Unavailable(op) ==
    /\ outcome' = <<op, "503">>
    /\ executions' = executions
    /\ caller' = <<>>

\* A request for a pipeline the store does not hold: no record, then 404
UnknownPipeline ==
    /\ (TriggerPipeline /\ target \notin DOMAIN pipelines) =>
          /\ executions' = executions
          /\ pc' = "not_found"
    /\ (Respond /\ pc = "not_found") =>
          /\ outcome' = <<"trigger_pipeline", "404">>
          /\ executions' = executions
    /\ \A id \in DOMAIN ServePipelines \cup {Absent}, p \in CallerParams :
          (trigger_pipeline(id, p) /\ ~initialized) =>
             Unavailable("trigger_pipeline")

\* C26: a trigger of a schedule id the store does not hold is
\* answered "not found" and creates no execution record; so is a trigger of
\* a pipeline id the store does not hold; a trigger while the scheduler or
\* the executor is not initialized is answered "unavailable" and creates no
\* execution record.
C26_UnknownIsNotFound ==
    [][/\ \A id \in ServeIds, p \in CallerParams :
            trigger_schedule(id, p) =>
               IF ~initialized THEN Unavailable("trigger_schedule")
               ELSE id \notin DOMAIN etl_schedules =>
                       /\ outcome' = <<"trigger_schedule", "404">>
                       /\ executions' = executions
       /\ UnknownPipeline
      ]_vars

\* C27: the params a node's pipeline is executed with are the union of the
\* caller's params and the node's params, the node's value winning on a key
\* both hold, and absent caller params counting as the empty mapping.
C27_NodeParamsWin ==
    [][\A n \in RunIds \ {Direct} :
          (/\ ExecuteNode(n)
           /\ _load_pipeline(pipelines, NodeOf(dag, n).pipeline_id).found) =>
             LET c == IF params = <<>> THEN EmptyDict ELSE params[1]
                 np == NodeOf(dag, n).params
                 got == runs'[n].params
             IN /\ DOMAIN got = DOMAIN c \cup DOMAIN np
                /\ \A k \in DOMAIN np : got[k] = np[k]
                /\ \A k \in DOMAIN c \ DOMAIN np : got[k] = c[k]
      ]_vars

\* A node with params {k2, k3} runs under caller params {k1, k2}
C27_Witness ==
    /\ pc = "gather"
    /\ params = <<Dict({"k1", "k2"}, "caller")>>
    /\ runs["n1"].pc = "await"
    /\ runs["n1"].params =
          [k \in ParamKeys |-> IF k = "k1" THEN "caller" ELSE "node"]

\* The place of a node id in the ascending order of the ids
Rank(id) == CHOOSE i \in 1..Len(NodeOrder) : NodeOrder[i] = id

\* The place of the node `id` in a list of nodes
Place(nodes, id) == CHOOSE i \in 1..Len(nodes) : nodes[i].id = id

\* C28: however the schedule lists its nodes, the nodes of one batch (the
\* nodes of equal precedence) stand in ascending order of their ids, in the
\* batch and in the topological order.
C28_OrderById ==
    pc = "batch" =>
       \A b \in 1..Len(batches) :
          \A i, j \in 1..Len(batches[b]) :
             i < j =>
                /\ Rank(batches[b][i].id) < Rank(batches[b][j].id)
                /\ Place(sorted_nodes, batches[b][i].id)
                      < Place(sorted_nodes, batches[b][j].id)

\* The run has reached the transform or load step `step`
AtInputStep(run, step) ==
    /\ run.pc \in {"await", "done"}
    /\ run.i \in 1..Len(run.steps)
    /\ step = run.steps[run.i]
    /\ step.type \in {TRANSFORM, LOAD}

\* The run failed at its current step before any plugin was called for it
FailedUninvoked(run) ==
    /\ run.pc = "done"
    /\ run.result = "false"
    /\ run.plugin_calls = run.i - 1
    /\ tasks[run.task_id].status = FAILED

\* C29: a transform or load step that declares an input the environment has
\* no frame under fails without its plugin being called; one that declares
\* no input is given a frame of the environment, and fails for want of an
\* input, its plugin not called, only when the environment holds no frame.
C29_InputResolution ==
    LET run == runs[Direct] IN
    \A step \in Range(run.steps) :
       AtInputStep(run, step) =>
          /\ (step.input # None /\ step.input \notin Keys(run.env)) =>
                FailedUninvoked(run)
          /\ (step.input = None /\ run.env = <<>>) => FailedUninvoked(run)
          /\ (step.input = None /\ run.env # <<>>
                /\ registry_get(step.type, step.plugin) = NoError) =>
                /\ run.plugin_calls = run.i
                /\ \E e \in Range(run.env) : run.input_rows = e.frame

\* A transform without an input was given the frame its predecessor bound
C29_Witness ==
    LET run == runs[Direct] IN
    /\ run.pc = "await"
    /\ run.i = 2
    /\ run.steps[2].type = TRANSFORM
    /\ run.steps[2].input = None
    /\ run.env # <<>>
    /\ run.input_rows = MaxRows

\* The steps of the pipeline form a cycle: its sort has no order to give
InvalidPipeline(pipeline_id) ==
    /\ pipeline_id \in DOMAIN pipelines
    /\ \A o \in _topological_sort_steps(pipelines[pipeline_id]) : ~o.ok

\* The schedule's DAG cannot be ordered, or a node names an invalid pipeline
InvalidSchedule(nodes) ==
    \/ ~_topological_sort(nodes).ok
    \/ \E i \in 1..Len(nodes) : InvalidPipeline(nodes[i].pipeline_id)

\* C30: while execute_schedule runs a schedule whose DAG is invalid or one
\* of whose nodes names a pipeline with cyclic steps, no task record of the
\* execution exists, and the execution ends failed.
C30_InvalidFailsBeforeNodes ==
    (/\ Calling({"firing", "trigger_schedule"})
     /\ InvalidSchedule(dag)) =>
        /\ \A t \in 1..Len(tasks) : tasks[t].execution_id # Len(executions)
        /\ pc \in {"done", "raised"} =>
              executions[Len(executions)].status = FAILED

(***************************************************************************)
(* Validation, failures of the store, and what every run leaves behind     *)
(***************************************************************************)
\* The declared input of the step names no step's output and no step's id;
\* the environment of a run starts empty, so no caller-supplied variable
\* exists
Unresolved(steps, step) ==
    /\ step.input # None
    /\ \A t \in Range(steps) : t.output # step.input /\ t.id # step.input

\* C31: a run of a pipeline one of whose steps declares an unresolved input
\* creates no task and calls no plugin.
C31_UnresolvedInputRejected ==
    (/\ target \in DOMAIN pipelines
     /\ \E step \in Range(pipelines[target]) :
           Unresolved(pipelines[target], step)) =>
        /\ tasks = <<>>
        /\ runs[Direct].plugin_calls = 0

\* The active set and the jobs are those of the enabled rows of `table`
\* whose cron expression and timezone make a trigger
Converged(act, jbs, table) ==
    /\ DOMAIN act = {id \in EnabledIds(table) : Accepted(table[id])}
    /\ DOMAIN jbs = JobsOf(DOMAIN act)
    /\ \A id \in DOMAIN act :
          /\ act[id].cron_expr = table[id].cron_expr
          /\ act[id].timezone = table[id].timezone
          /\ act[id].dag = table[id].dag
          /\ jbs[JobId(id)].args = act[id]

\* C32 as stated: a poll in which the store fails is logged, leaves the loop
\* alive and the active set and the jobs as they were; the poll after it
\* makes the active set the set of the enabled schedules of the store.
C32_StoreFailureRetried ==
    [][/\ PollStoreFails =>
             /\ polling'
             /\ outcome'[1] = "poll"
             /\ active' = active
             /\ jobs' = jobs
       /\ (Poll /\ outcome # <<>> /\ outcome[1] = "poll") =>
             DOMAIN active' = EnabledIds(etl_schedules')
      ]_vars

\* C32: a poll in which the store fails is logged and leaves the loop alive.
\* When the query of the schedules fails, the active set and the jobs are
\* as they were; when only a write of next_run_at fails, they are as that
\* poll reconciled them. The poll after it makes the active set, and the
\* jobs, those of the enabled schedules of the store whose cron expression
\* and timezone make a trigger.
C32_QueryFailureRetried ==
    [][/\ PollStoreFails =>
             /\ polling'
             /\ outcome'[1] = "poll"
             /\ IF outcome'[2] = "poll_error"
                THEN active' = active /\ jobs' = jobs
                ELSE Converged(active', jobs', etl_schedules')
       /\ (Poll /\ outcome # <<>> /\ outcome[1] = "poll") =>
             Converged(active', jobs', etl_schedules')
      ]_vars

\* The store failed at a poll while A was active and B, just enabled, was
\* not; the next poll added B
C32_Witness ==
    /\ outcome = <<"poll", "poll_error">>
    /\ edits = 1
    /\ DOMAIN active = {"A", "B"}
    /\ job_ops = {<<"add_job", JobId("B")>>}
    /\ polled = etl_schedules

\* The tasks that the run r created, in the order of their creation
TasksOf(r) == [k \in 1..Len(runs[r].created) |-> tasks[runs[r].created[k]]]

\* C33: of the tasks of one run of PipelineExecutor.execute at most one is
\* running, and every task but the last created has status success: the
\* task of a step is created after the task of the step before it has
\* succeeded, whatever the parallel flags of the steps.
C33_StepsTotallyOrdered ==
    \A r \in RunIds :
       LET ts == TasksOf(r) IN
       /\ Cardinality({k \in 1..Len(ts) : ts[k].status = RUNNING}) <= 1
       /\ \A k \in 1..(Len(ts) - 1) : ts[k].status = SUCCESS
       /\ \A k \in 1..Len(ts) : ts[k].node_id = runs[r].steps[k].id

\* The task of a second step flagged parallel is running after the first
\* step's task has succeeded
C33_Witness ==
    LET ts == TasksOf(Direct) IN
    /\ Len(ts) = 2
    /\ runs[Direct].steps[2].parallel
    /\ runs[Direct].steps[1].parallel
    /\ ts[1].status = SUCCESS
    /\ ts[2].status = RUNNING

\* C34: the environment of a pipeline run is empty when the run starts; a
\* step that succeeds as an extract or a transform binds its output key (its
\* id when it declares no output) and leaves every other key as it was; a
\* load step and a failing step leave the environment as it was; no key is
\* ever removed.
C34_EnvironmentGrows ==
    [][LET old == runs[Direct]
           new == runs'[Direct]
       IN /\ ExecutePipeline => new.env = <<>>
          /\ old.pc = "await" =>
                /\ Keys(old.env) \subseteq Keys(new.env)
                /\ (\E rows \in Rows : PluginReturns(Direct, rows)) =>
                      LET step == old.steps[old.i] IN
                      IF step.type = LOAD THEN new.env = old.env
                      ELSE /\ Keys(new.env) = Keys(old.env) \cup {OutputKey(step)}
                           /\ get_variable(new.env, OutputKey(step)) # Null
                           /\ \A k \in Keys(old.env) \ {OutputKey(step)} :
                                 get_variable(new.env, k) = get_variable(old.env, k)
                /\ PluginRaises(Direct) => new.env = old.env
      ]_vars

\* Two steps have each bound their key: x by the extract, b by a transform
\* that declares no output
C34_Witness ==
    /\ pc = "done"
    /\ runs[Direct].result = "true"
    /\ Len(runs[Direct].steps) = MaxSteps
    /\ Keys(runs[Direct].env) = {"x", "b"}
    /\ get_variable(runs[Direct].env, "x") = 0
    /\ get_variable(runs[Direct].env, "b") = MaxRows

\* C35: between the operations of the scheduler, schedule X is in the active
\* set exactly when the job schedule_X is installed, and that job holds the
\* schedule version of the active-set entry (cron expression, timezone and
\* dag) and a trigger made of it; also after an add_job that was refused.
C35_JobsMatchActive ==
    /\ DOMAIN jobs = JobsOf(DOMAIN active)
    /\ \A id \in DOMAIN active :
          LET job == jobs[JobId(id)] IN
          /\ job.args.id = id
          /\ job.args.cron_expr = active[id].cron_expr
          /\ job.args.timezone = active[id].timezone
          /\ job.args.dag = active[id].dag
          /\ TriggerLine(job.trigger) = active[id].cron_expr
          /\ job.trigger.timezone = active[id].timezone

\* The expression of the active schedule A was changed to one that is not a
\* crontab line: the poll removed the job and the entry of A and kept B
C35_Witness ==
    /\ polling
    /\ "A" \in EnabledIds(etl_schedules)
    /\ ~Accepted(etl_schedules["A"])
    /\ job_ops = {<<"remove_job", JobId("A")>>}
    /\ DOMAIN active = {"B"}
    /\ DOMAIN jobs = JobsOf({"B"})

\* C36: a trigger request is answered 404 only when the store holds no
\* schedule, or no pipeline, of the id in the request.
C36_NotFoundMeansAbsent ==
    [][/\ \A id \in ServeIds, p \in CallerParams :
            (/\ trigger_schedule(id, p)
             /\ caller' = <<>>
             /\ outcome' = <<"trigger_schedule", "404">>) =>
                id \notin DOMAIN etl_schedules
       /\ (Respond /\ outcome'[2] = "404") =>
             IF caller[1].who = "trigger_schedule"
             THEN caller[1].id \notin DOMAIN etl_schedules
             ELSE target \notin DOMAIN pipelines
      ]_vars

\* C37: a DAG is rejected only when its dependency relation has a cycle or
\* a depends_on entry names no node of the schedule; every other DAG, with
\* or without a repeated entry in a depends_on list, is sorted and batched.
C37_RejectsOnlyInvalid ==
    pc = "raised" => (HasCycle(dag) \/ ~Closed(dag))

\* C38: every task record of an execution whose status is success or failed
\* has status success or failed and its finished_at set.
C38_TerminalExecutionTerminalTasks ==
    \A t \in 1..Len(tasks) :
       executions[tasks[t].execution_id].status \in {SUCCESS, FAILED} =>
          /\ tasks[t].status \in {SUCCESS, FAILED}
          /\ tasks[t].finished
          /\ tasks[t].finished_at # Null

\* C39: execute_schedule comes to its end, and the execution record it
\* created reaches status success or failed; the sorted nodes are always
\* turned into batches or refused.
C39_ExecuteScheduleTerminates ==
    /\ <>(pc \in {"done", "raised"})
    /\ (executions # <<>>) ~>
          (/\ pc \in {"done", "raised"}
           /\ \A e \in 1..Len(executions) :
                 executions[e].status \in {SUCCESS, FAILED})
    /\ (pc = "sorted") ~> (pc \in {"batch", "raised"})

\* The execution ended failed after one node was cut off by its timeout and
\* the node that depends on it was skipped
C39_Witness ==
    /\ pc = "done"
    /\ executions[1].status = FAILED
    /\ Len(batches) >= 2
    /\ \E n \in NodeIds : runs[n].why = "timeout"
    /\ \E n \in Ids(dag) : runs[n].pc = "none"

====
